---- MODULE Spec2Model ----
(***************************************************************************)
(* A model of opt.py, the installation manager for the /opt directory.     *)
(*                                                                         *)
(* The state is the filesystem tree the program works on (a map from the   *)
(* paths that exist to directories, regular files and symbolic links; the  *)
(* journals are regular files whose lines are paths) and the record of the *)
(* command that main() has just run.  Every command of main() is one       *)
(* action; it is translated from the command's handler, constructor and    *)
(* execute() included, with the os / shutil calls modelled by what they do *)
(* to the tree and by when they raise.                                     *)
(***************************************************************************)
EXTENDS Naturals, Sequences, FiniteSets, TLC

VARIABLES
    fs,       \* the filesystem tree: path -> node, defined on the paths that exist
    before,   \* the tree as it was when the command in `cmd` started
    cmd,      \* the command main() has run last (a record), or NoCmd
    outcome,  \* how that command ended: "ok", a validation message or "exception"
    pc,       \* "idle": waiting for the next invocation; "done": a command has just ended
    steps     \* the number of commands run so far

vars == <<fs, before, cmd, outcome, pc, steps>>

-----------------------------------------------------------------------------
(* Bounds of the model.                                                    *)

\* the number of commands in one behaviour
MaxSteps == 4
\* the number of symbolic links one path lookup follows before it gives up
\* (the kernel's ELOOP limit)
MaxLinks == 6
\* the number of wrapper directories an archive puts above its payload
MaxWrap == 2

-----------------------------------------------------------------------------
(* Paths are sequences of path components; the root directory is <<>>.     *)

OPT_DIR == <<"opt">>
BIN_DIR == <<"bin">>
DESKTOP_DIR == <<"desktop">>
AUTOCOMPLETE_DIR == <<"complete">>
ICON_DIR == <<"icons">>
INSTALL_DIR == OPT_DIR \o <<".installer">>
\* the directory the input files of the commands lie in
RES_DIR == <<"res">>
\* the directory tempfile.TemporaryDirectory() creates and removes
TMP_DIR == <<"tmp", "t">>

CMD_INSTALL == "install"
CMD_UPDATE == "update"
CMD_REMOVE == "remove"
CMD_DESKTOP == "desktop"
CMD_AUTOCOMPLETE == "autocomplete"
CMD_MENU_DEPRECATED == "menu"
CMD_ALIAS == "alias"
CMD_PATH == "path"

\* Op of the value v: the value is worked out once and used wherever Op uses it
With(v, Op(_)) == Op(v)

IsPrefix(s, t) == Len(s) <= Len(t) /\ SubSeq(t, 1, Len(s)) = s
IsSuffix(s, t) == Len(s) <= Len(t) /\ SubSeq(t, Len(t) - Len(s) + 1, Len(t)) = s
Parent(p) == SubSeq(p, 1, Len(p) - 1)
Base(p) == p[Len(p)]
\* the part of q below the directory d
RelTo(d, q) == SubSeq(q, Len(d) + 1, Len(q))

\* the names of the applications of the model
AppNames == {"a", "ab", "c"}
Commands ==
    {CMD_INSTALL, CMD_UPDATE, CMD_REMOVE, CMD_DESKTOP, CMD_AUTOCOMPLETE,
     CMD_MENU_DEPRECATED, CMD_ALIAS, CMD_PATH}

\* the archives that hold one payload each below 0..MaxWrap wrapper directories
PayloadNames == {"two", "one", "dir", "mix", "none"}
Digits == <<"0", "1", "2", "3", "4", "5">>
WrapId(p, n) == p \o Digits[n + 1]
WrapIds == {WrapId(p, n) : p \in PayloadNames, n \in 0..MaxWrap}
WrapTarName(id) == id \o ".tar"

RECURSIVE LongName(_)
\* a directory name of n letters
LongName(n) == IF n = 0 THEN "" ELSE "l" \o LongName(n - 1)
LongLens == {1, 97, 98, 99}

(* The characters of a path component: str.startswith, str.endswith, len   *)
(* and the order of sorted() work on the characters of a path.             *)
WordChars(c) ==
    CASE c = "opt" -> <<"o", "p", "t">>
      [] c = ".installer" -> <<".", "i", "n", "s", "t", "a", "l", "l", "e", "r">>
      [] c = "bin" -> <<"b", "i", "n">>
      [] c = "desktop" -> <<"d", "e", "s", "k", "t", "o", "p">>
      [] c = "complete" -> <<"c", "o", "m", "p", "l", "e", "t", "e">>
      [] c = "icons" -> <<"i", "c", "o", "n", "s">>
      [] c = "res" -> <<"r", "e", "s">>
      [] c = "tmp" -> <<"t", "m", "p">>
      [] c = "t" -> <<"t">>
      [] c = "a" -> <<"a">>
      [] c = "ab" -> <<"a", "b">>
      [] c = "c" -> <<"c">>
      [] c = "f1" -> <<"f", "1">>
      [] c = "f2" -> <<"f", "2">>
      [] c = "w" -> <<"w">>
      [] c = "t.tar" -> <<"t", ".", "t", "a", "r">>
      [] c = "w.tar" -> <<"w", ".", "t", "a", "r">>
      [] c = "none" -> <<"n", "o", "n", "e">>
      [] c = "d.desktop" -> <<"d", ".", "d", "e", "s", "k", "t", "o", "p">>
      [] c = "i.png" -> <<"i", ".", "p", "n", "g">>
      [] c = "install" -> <<"i", "n", "s", "t", "a", "l", "l">>
      [] c = "update" -> <<"u", "p", "d", "a", "t", "e">>
      [] c = "remove" -> <<"r", "e", "m", "o", "v", "e">>
      [] c = "autocomplete" -> <<"a", "u", "t", "o", "c", "o", "m", "p", "l", "e", "t", "e">>
      [] c = "menu" -> <<"m", "e", "n", "u">>
      [] c = "alias" -> <<"a", "l", "i", "a", "s">>
      [] c = "path" -> <<"p", "a", "t", "h">>
      [] c = "." -> <<".">>
      [] c = ".." -> <<".", ".">>
      [] c = "d" -> <<"d">>
      [] c = "s" -> <<"s">>
      [] c = "two" -> <<"t", "w", "o">>
      [] c = "one" -> <<"o", "n", "e">>
      [] c = "dir" -> <<"d", "i", "r">>
      [] c = "mix" -> <<"m", "i", "x">>

Words ==
    {"opt", ".installer", "bin", "desktop", "complete", "icons", "res", "tmp", "t",
     "a", "ab", "c", "f1", "f2", "w", "t.tar", "w.tar", "none", "d.desktop", "i.png",
     ".", "..", "d", "s"} \cup Commands

\* the characters of every path component, a journal's name <name>.<command> included
CharsOf ==
    [c \in Words |-> WordChars(c)]
    @@ [c \in {n \o "." \o k : n \in AppNames, k \in Commands} |->
           LET nk == CHOOSE nk \in AppNames \X Commands : c = nk[1] \o "." \o nk[2]
           IN  WordChars(nk[1]) \o <<".">> \o WordChars(nk[2])]
    @@ [c \in {WrapTarName(id) : id \in WrapIds} |->
           LET pn == CHOOSE pn \in PayloadNames \X (0..MaxWrap) :
                         c = WrapTarName(WrapId(pn[1], pn[2]))
           IN  WordChars(pn[1]) \o <<Digits[pn[2] + 1]>> \o <<".", "t", "a", "r">>]
    @@ [c \in {LongName(n) : n \in LongLens} |->
           [i \in 1..(CHOOSE n \in LongLens : c = LongName(n)) |-> "l"]]
Chars(c) == CharsOf[c]

\* the characters in the order of their code points
CharOrder ==
    <<"-", ".", "/", "0", "1", "2", "3", "4", "5", "6", "7", "8", "9", "_",
      "a", "b", "c", "d", "e", "f", "g", "h", "i", "j", "k", "l", "m", "n",
      "o", "p", "q", "r", "s", "t", "u", "v", "w", "x", "y", "z">>
OrdOf == [ch \in {CharOrder[i] : i \in 1..Len(CharOrder)} |->
             CHOOSE i \in 1..Len(CharOrder) : CharOrder[i] = ch]
Ord(ch) == OrdOf[ch]

RECURSIVE AbsStr(_)
\* the absolute path as a string: "/" and the component, for every component
AbsStr(p) == IF p = <<>> THEN <<>> ELSE AbsStr(Parent(p)) \o <<"/">> \o Chars(Base(p))

\* the places where the strings differ, as far as both reach
Differ(s, t) == {i \in 1..Len(s) : i <= Len(t) /\ s[i] # t[i]}
\* s < t for strings: decided by the first place where they differ, or by
\* the lengths when one is the beginning of the other
StrLess(s, t) ==
    With(Differ(s, t), LAMBDA d :
        IF d = {} THEN Len(s) < Len(t)
        ELSE With(CHOOSE i \in d : \A j \in d : i <= j,
                  LAMBDA i : Ord(s[i]) < Ord(t[i])))

PathLess(p, q) == StrLess(AbsStr(p), AbsStr(q))

RECURSIVE SortPaths(_)
\* sorted(paths) for a set of paths: the paths as a list, least first
SortPaths(S) ==
    IF S = {} THEN <<>>
    ELSE With(CHOOSE x \in S : \A y \in S \ {x} : PathLess(x, y),
              LAMBDA m : <<m>> \o SortPaths(S \ {m}))
Range(s) == {s[i] : i \in 1..Len(s)}

-----------------------------------------------------------------------------
(* Nodes of the tree.  The data of a file is the list of its lines, each   *)
(* line a sequence of strings (a journal line is a path); x is the file's  *)
(* executable bit.                                                         *)

Dir == [kind |-> "dir"]
File(d, x) == [kind |-> "file", data |-> d, x |-> x]
Link(t) == [kind |-> "link", to |-> t]

\* what a lookup answers for a path that does not lead anywhere
NONE == <<"?">>

RECURSIVE Walk(_, _, _, _)
(* The place the path cur/rest leads to, every symbolic link followed, or  *)
(* NONE; cur is a directory already reached.                               *)
Walk(f, cur, rest, fuel) ==
    IF rest = <<>> THEN cur
    ELSE IF Head(rest) = "." THEN Walk(f, cur, Tail(rest), fuel)
    ELSE IF Head(rest) = ".." THEN Walk(f, Parent(cur), Tail(rest), fuel)
    ELSE LET nxt == Append(cur, Head(rest))
         IN  IF nxt \notin DOMAIN f THEN NONE
             ELSE IF f[nxt].kind = "link"
                  THEN IF fuel = 0 THEN NONE
                       ELSE Walk(f, <<>>, f[nxt].to \o Tail(rest), fuel - 1)
             ELSE IF f[nxt].kind = "dir" THEN Walk(f, nxt, Tail(rest), fuel)
             ELSE IF Tail(rest) = <<>> THEN nxt ELSE NONE

\* the place of p, all links followed (stat)
Real(f, p) == Walk(f, <<>>, p, MaxLinks)
\* the place of p, the links of its directory followed but not p itself (lstat)
LReal(f, p) ==
    IF p = <<>> THEN <<>>
    ELSE With(Real(f, Parent(p)), LAMBDA d :
             IF d = NONE THEN NONE
             ELSE IF d # <<>> /\ f[d].kind # "dir" THEN NONE
             ELSE Append(d, Base(p)))

\* os.path.exists: false for a broken symbolic link
exists(f, p) == Real(f, p) # NONE
\* os.path.lexists
lexists(f, p) == With(LReal(f, p), LAMBDA l : l # NONE /\ (l = <<>> \/ l \in DOMAIN f))
islink(f, p) ==
    p # <<>> /\ With(LReal(f, p), LAMBDA l : l # NONE /\ l \in DOMAIN f /\ f[l].kind = "link")
isdir(f, p) == With(Real(f, p), LAMBDA d : d # NONE /\ (d = <<>> \/ f[d].kind = "dir"))
isfile(f, p) == With(Real(f, p), LAMBDA d : d # NONE /\ d # <<>> /\ f[d].kind = "file")
\* os.access(p, os.X_OK): directories are searchable, files need the bit
access_X_OK(f, p) ==
    With(Real(f, p), LAMBDA d : d # NONE /\ (d = <<>> \/ f[d].kind = "dir"
                                              \/ (f[d].kind = "file" /\ f[d].x)))
\* os.listdir, as the set of the entries' names
listdir(f, p) == {Base(q) : q \in {r \in DOMAIN f : r # <<>> /\ Parent(r) = Real(f, p)}}

(* The result of a call that changes the tree: the tree it leaves, and     *)
(* whether it returned (ok) or raised.                                     *)
Ok(f) == [ok |-> TRUE, fs |-> f]
Raise(f) == [ok |-> FALSE, fs |-> f]
\* r; Op, where Op is skipped when r raised
Then(r, Op(_)) == IF r.ok THEN Op(r.fs) ELSE r

Without(f, S) == [q \in DOMAIN f \ S |-> f[q]]
Put(f, p, node) == (p :> node) @@ Without(f, {p})

\* os.mkdir
mkdir(f, p) ==
    With(LReal(f, p), LAMBDA l :
        IF l = NONE \/ l = <<>> \/ l \in DOMAIN f THEN Raise(f) ELSE Ok(Put(f, l, Dir)))

RECURSIVE makedirs(_, _)
\* os.makedirs(p, exist_ok=True)
makedirs(f, p) ==
    IF isdir(f, p) THEN Ok(f)
    ELSE IF lexists(f, p) THEN Raise(f)
    ELSE Then(IF exists(f, Parent(p)) THEN Ok(f) ELSE makedirs(f, Parent(p)),
              LAMBDA g : mkdir(g, p))

\* shutil.rmtree that removes nothing
rmtree_nothing(f, p) == IF islink(f, p) \/ ~isdir(f, p) THEN Raise(f) ELSE Ok(f)

\* shutil.rmtree: refuses a symbolic link, removes the directory and all below it
rmtree(f, p) ==
    IF islink(f, p) THEN Raise(f)
    ELSE With(Real(f, p), LAMBDA d :
             IF d = NONE \/ d = <<>> THEN Raise(f)
             ELSE IF f[d].kind # "dir" THEN Raise(f)
             ELSE Ok(Without(f, {q \in DOMAIN f : IsPrefix(d, q)})))

\* os.unlink, os.remove
unlink(f, p) ==
    With(LReal(f, p), LAMBDA l :
        IF l = NONE \/ l = <<>> \/ l \notin DOMAIN f THEN Raise(f)
        ELSE IF f[l].kind = "dir" THEN Raise(f)
        ELSE Ok(Without(f, {l})))

\* os.symlink(target, p)
symlink(f, target, p) ==
    With(LReal(f, p), LAMBDA l :
        IF l = NONE \/ l = <<>> \/ l \in DOMAIN f THEN Raise(f)
        ELSE Ok(Put(f, l, Link(target))))

(* The place a write to the file p goes to: p's own place, or the place a  *)
(* chain of links at p leads to; NONE when there is no directory for it or *)
(* a link of the chain is broken.                                          *)
WritePlace(f, p) ==
    IF islink(f, p) THEN Real(f, p) ELSE LReal(f, p)

\* open(p, 'w') ... write(data): create or replace the file's contents
writefile(f, p, data, x) ==
    With(WritePlace(f, p), LAMBDA w :
        IF w = NONE \/ w = <<>> THEN Raise(f)
        ELSE IF w \in DOMAIN f /\ f[w].kind # "file" THEN Raise(f)
        ELSE Ok(Put(f, w, File(data, x))))

\* open(p, 'a'): create the file when it is not there
openAppend(f, p) ==
    With(WritePlace(f, p), LAMBDA w :
        IF w = NONE \/ w = <<>> THEN Raise(f)
        ELSE IF w \notin DOMAIN f THEN Ok(Put(f, w, File(<<>>, FALSE)))
        ELSE IF f[w].kind # "file" THEN Raise(f)
        ELSE Ok(f))

\* log.write(line + '\n') on a file opened for appending
appendLine(f, p, line) ==
    With(Real(f, p), LAMBDA w :
        IF w = NONE \/ w = <<>> THEN Raise(f)
        ELSE IF f[w].kind # "file" THEN Raise(f)
        ELSE Ok(Put(f, w, File(Append(f[w].data, line), f[w].x))))

-----------------------------------------------------------------------------
(* Copying and archives (fileutil.py).  A tree to be copied is a map from  *)
(* the paths below its top to nodes.                                       *)

\* the tree below the directory p, links inside it replaced by what they lead to
TreeAt(f, p) ==
    With(Real(f, p), LAMBDA top :
        [r \in {RelTo(top, q) : q \in {q \in DOMAIN f : IsPrefix(top, q) /\ q # top}} |->
            With(Real(f, top \o r), LAMBDA t :
                IF f[top \o r].kind = "link" /\ t # NONE /\ t # <<>>
                THEN f[t] ELSE f[top \o r])])

\* the entry r of the tree t cannot be written below the directory d
Clash(f, t, d, r) ==
    \/ t[r].kind = "link"
    \/ /\ (d \o r) \in DOMAIN f
       /\ f[d \o r].kind # t[r].kind

(* Write the tree t below the directory at dst: directories are merged,    *)
(* files replace files; an entry that cannot be written (and all below it) *)
(* is left out, the others are written, and the call raises at the end.    *)
MergeTree(f, t, dst) ==
    With(Real(f, dst), LAMBDA d :
        LET bad == {r \in DOMAIN t : \E k \in 1..Len(r) :
                        SubSeq(r, 1, k) \in DOMAIN t /\ Clash(f, t, d, SubSeq(r, 1, k))}
            good == DOMAIN t \ bad
            g == [q \in DOMAIN f \cup {d \o r : r \in good} |->
                     IF \E r \in good : q = d \o r THEN t[RelTo(d, q)] ELSE f[q]]
        IN  IF d = NONE THEN Raise(f)
            ELSE IF DOMAIN t = good THEN Ok(g) ELSE Raise(g))

\* shutil.copy2 that leaves a file already in targetDir as it is
copy2_keepOld(f, file, targetDir) ==
    IF ~isfile(f, file) THEN Raise(f)
    ELSE IF exists(f, Append(targetDir, Base(file))) THEN Ok(f)
    ELSE writefile(f, Append(targetDir, Base(file)),
                   f[Real(f, file)].data, f[Real(f, file)].x)

\* shutil.copy2(file, targetDir): contents and mode, into targetDir/basename
copy2(f, file, targetDir) ==
    IF ~isfile(f, file) THEN Raise(f)
    ELSE writefile(f, Append(targetDir, Base(file)),
                   f[Real(f, file)].data, f[Real(f, file)].x)

\* shutil.copyfile(src, dst): the contents only
copyfile(f, src, dst) ==
    IF ~isfile(f, src) THEN Raise(f)
    ELSE writefile(f, dst, f[Real(f, src)].data,
                   IF isfile(f, dst) THEN f[Real(f, dst)].x ELSE FALSE)

\* fileutil.chmod_add(file, stat.S_IEXEC | ...)
chmod_add_exec(f, p) ==
    IF ~isfile(f, p) THEN (IF exists(f, p) THEN Ok(f) ELSE Raise(f))
    ELSE Ok(Put(f, Real(f, p), File(f[Real(f, p)].data, TRUE)))

copyFileOrFolder(f, file, targetDir) ==
    Then(makedirs(f, targetDir), LAMBDA g :
        IF isdir(g, file) THEN MergeTree(g, TreeAt(g, file), targetDir)
        ELSE copy2(g, file, targetDir))

\* the file names below dir, sub-directories included (os.walk)
getAllSubFiles(f, dir) ==
    With(Real(f, dir), LAMBDA top :
        {q \in DOMAIN f : IsPrefix(top, q) /\ q # top /\ f[q].kind = "file"})

\* skipContainerDirs that goes down one directory and no further
skipContainerDirs_oneLevel(f, dir) ==
    With(listdir(f, dir), LAMBDA files :
        IF Cardinality(files) # 1 THEN dir
        ELSE With(Append(dir, CHOOSE x \in files : TRUE), LAMBDA fileOrDir :
                 IF ~isdir(f, fileOrDir) THEN dir ELSE fileOrDir))

RECURSIVE skipContainerDirs(_, _)
skipContainerDirs(f, dir) ==
    With(listdir(f, dir), LAMBDA files :
        IF Cardinality(files) # 1 THEN dir
        ELSE With(Append(dir, CHOOSE x \in files : TRUE), LAMBDA fileOrDir :
                 IF ~isdir(f, fileOrDir) THEN dir
                 ELSE skipContainerDirs(f, fileOrDir)))

ArchiveSuffixes ==
    { <<".", "z", "i", "p">>, <<".", "t", "a", "r", ".", "b", "z", "2">>,
      <<".", "t", "a", "r">>, <<".", "t", "a", "r", ".", "g", "z">>,
      <<".", "t", "g", "z">>, <<".", "t", "a", "r", ".", "x", "z">> }
isArchiveFile(file) == \E sfx \in ArchiveSuffixes : IsSuffix(sfx, AbsStr(file))

(* The contents of the input files.  An archive's data is one line that    *)
(* names its payload; Payload gives the tree packed in it.                 *)
Data1 == << <<"one">> >>
Data2 == << <<"two">> >>
Edited == << <<"Config: 2">> >>
ArchiveData(id) == << <<"archive", id>> >>
IsArchiveData(d) == Len(d) = 1 /\ Len(d[1]) = 2 /\ d[1][1] = "archive"

\* the payloads that are packed with and without wrapper directories
BasePayload(p) ==
    CASE p = "two" -> (<<"f1">> :> File(Data1, FALSE)) @@ (<<"f2">> :> File(Data2, TRUE))
      [] p = "one" -> (<<"f1">> :> File(Data1, FALSE))
      [] p = "dir" -> (<<"s">> :> Dir) @@ (<<"s", "f1">> :> File(Data1, FALSE))
                      @@ (<<"s", "f2">> :> File(Data2, TRUE))
      [] p = "mix" -> (<<"f1">> :> File(Data1, FALSE)) @@ (<<"s">> :> Dir)
                      @@ (<<"s", "f2">> :> File(Data2, TRUE))
      [] p = "none" -> <<>>

\* the wrapper directories above a payload, n of them
WrapperChain(n) == [i \in 1..n |-> "d"]
\* the tree t packed below n wrapper directories, each the only entry of the one above
Wrap(t, n) ==
    [r \in {WrapperChain(k) : k \in 1..n} \cup {WrapperChain(n) \o q : q \in DOMAIN t} |->
        IF Len(r) <= n THEN Dir ELSE t[SubSeq(r, n + 1, Len(r))]]

WrappedPayload(id) ==
    With(CHOOSE pn \in PayloadNames \X (0..MaxWrap) : WrapId(pn[1], pn[2]) = id,
         LAMBDA pn : Wrap(BasePayload(pn[1]), pn[2]))

Payload(id) ==
    CASE id = "t" -> (<<"f1">> :> File(Data1, FALSE)) @@ (<<"f2">> :> File(Data2, TRUE))
      [] id = "w" -> (<<"w">> :> Dir) @@ (<<"w", "f1">> :> File(Data1, FALSE))
      [] id \in WrapIds -> WrappedPayload(id)

\* tar.extractall(targetDir) / zip.extractall(targetDir)
extractArchive(f, file, targetDir) ==
    IF ~isArchiveFile(file) THEN Ok(f)
    ELSE IF ~isfile(f, file) THEN Raise(f)
    ELSE IF ~IsArchiveData(f[Real(f, file)].data) THEN Raise(f)
    ELSE Then(makedirs(f, targetDir), LAMBDA g :
             MergeTree(g, Payload(f[Real(f, file)].data[1][2]), targetDir))

-----------------------------------------------------------------------------
(* class Application                                                       *)

appDir(name) == Append(OPT_DIR, name)
appInstallDir(name) == Append(INSTALL_DIR, name)
getLogFile(name, command) == Append(INSTALL_DIR, name \o "." \o command)

\* ApplicationState with the pair test replaced by "appDir without installDir"
ApplicationState_appDirOnly(f, name) ==
    LET appDirExists == exists(f, appDir(name))
        appInstallDirExists == exists(f, appInstallDir(name))
    IN  IF appDirExists /\ ~appInstallDirExists THEN "UNMANAGED"
        ELSE IF appDirExists
             THEN IF exists(f, getLogFile(name, CMD_ALIAS)) THEN "ALIAS" ELSE "INSTALLED"
        ELSE "NEW"

\* Application.__init__: the state of the application called name
ApplicationState(f, name) ==
    LET appDirExists == exists(f, appDir(name))
        appInstallDirExists == exists(f, appInstallDir(name))
    IN  IF appDirExists # appInstallDirExists THEN "UNMANAGED"
        ELSE IF appDirExists
             THEN IF exists(f, getLogFile(name, CMD_ALIAS)) THEN "ALIAS" ELSE "INSTALLED"
        ELSE "NEW"

\* Application.__init__: self.aliasTarget, os.path.realpath of the install
\* directory for an ALIAS, NONE otherwise
aliasTarget(f, name) ==
    IF ApplicationState(f, name) = "ALIAS" THEN Real(f, appInstallDir(name)) ELSE NONE

\* os.path.abspath(file).startswith(self.appDir)
isAppFile(name, file) == IsPrefix(AbsStr(appDir(name)), AbsStr(file))

readLogFile(f, name, command) ==
    IF ~isfile(f, getLogFile(name, command)) THEN <<>>
    ELSE f[Real(f, getLogFile(name, command))].data

\* _validateFiles with the broken links never counted
validExisting_noBroken(f, files, brokenLinks) == {file \in files : exists(f, file)}

\* _validateFiles: the files of the set that exist
validExisting(f, files, brokenLinks) ==
    {file \in files : exists(f, file) \/ (brokenLinks /\ islink(f, file))}
validNonExisting(f, files, brokenLinks) == files \ validExisting(f, files, brokenLinks)

-----------------------------------------------------------------------------
(* class InstallTask                                                       *)

RECURSIVE KeepError(_, _, _)
\* the loop over keepFiles in InstallTask.__init__: the first error, or "ok"
KeepError(f, name, keepFiles) ==
    IF keepFiles = <<>> THEN "ok"
    ELSE IF ~exists(f, Head(keepFiles)) THEN "file does not exist"
    ELSE IF ~isAppFile(name, Head(keepFiles)) THEN "does not belong to application"
    ELSE KeepError(f, name, Tail(keepFiles))

\* InstallTaskInit without the test for an installed application
InstallTaskInit_reinstall(f, name, update, keepFiles) ==
    With(ApplicationState(f, name), LAMBDA state :
        IF state = "ALIAS" THEN "is an alias"
        ELSE IF state = "UNMANAGED" THEN "is not managed"
        ELSE IF update /\ state = "NEW" THEN "does not exist"
        ELSE KeepError(f, name, keepFiles))

\* InstallTaskInit with the test for an alias made for installs only
InstallTaskInit_aliasUpdate(f, name, update, keepFiles) ==
    With(ApplicationState(f, name), LAMBDA state :
        IF ~update /\ state = "ALIAS" THEN "is an alias"
        ELSE IF state = "UNMANAGED" THEN "is not managed"
        ELSE IF update /\ state = "NEW" THEN "does not exist"
        ELSE IF ~update /\ state = "INSTALLED" THEN "is already installed"
        ELSE KeepError(f, name, keepFiles))

\* InstallTask.__init__: the message of the OptError it raises, or "ok"
InstallTaskInit(f, name, update, keepFiles) ==
    With(ApplicationState(f, name), LAMBDA state :
        IF state = "ALIAS" THEN "is an alias"
        ELSE IF state = "UNMANAGED" THEN "is not managed"
        ELSE IF update /\ state = "NEW" THEN "does not exist"
        ELSE IF ~update /\ state = "INSTALLED" THEN "is already installed"
        ELSE KeepError(f, name, keepFiles))

\* os.path.relpath(e, start)
relpath(e, start) ==
    LET common == CHOOSE k \in 0..Len(start) :
                     /\ k <= Len(e)
                     /\ SubSeq(e, 1, k) = SubSeq(start, 1, k)
                     /\ (k < Len(start) /\ k < Len(e) => e[k + 1] # start[k + 1])
        rel == [i \in 1..(Len(start) - common) |-> ".."] \o SubSeq(e, common + 1, Len(e))
    IN  IF rel = <<>> THEN <<".">> ELSE rel

RECURSIVE saveKeep(_, _, _)
\* "save files to keep": each kept file or folder is copied below the temporary directory
saveKeep(f, name, keep) ==
    IF keep = <<>> THEN Ok(f)
    ELSE LET e == Head(keep)
             tmpFile == TMP_DIR \o relpath(e, appDir(name))
         IN  Then(copyFileOrFolder(f, e, IF isfile(f, e) THEN Parent(tmpFile) ELSE tmpFile),
                  LAMBDA g : saveKeep(g, name, Tail(keep)))

RECURSIVE copyFiles(_, _, _)
\* "copy files": archives are unpacked into the install directory, other files copied
copyFiles(f, name, files) ==
    IF files = <<>> THEN Ok(f)
    ELSE Then(IF isArchiveFile(Head(files))
              THEN extractArchive(f, Head(files), appInstallDir(name))
              ELSE copyFileOrFolder(f, Head(files), appInstallDir(name)),
              LAMBDA g : copyFiles(g, name, Tail(files)))

\* "create symlink" with the old link removed and no new one made
createSymlink_unlinkOnly(f, name) ==
    IF islink(f, appDir(name)) THEN unlink(f, appDir(name)) ELSE Ok(f)

\* "create symlink": appDir -> the install directory without its container directories
createSymlink(f, name) ==
    Then(IF islink(f, appDir(name)) THEN unlink(f, appDir(name)) ELSE Ok(f), LAMBDA g :
        IF ~isdir(g, appInstallDir(name)) THEN Raise(g)
        ELSE symlink(g, skipContainerDirs(g, appInstallDir(name)), appDir(name)))

\* "_save_log" with the line of appDir left out
saveLog_installDirOnly(f, name, logFile) == appendLine(f, logFile, appInstallDir(name))

\* "_save_log"
saveLog(f, name, logFile) ==
    Then(appendLine(f, logFile, appInstallDir(name)),
         LAMBDA g : appendLine(g, logFile, appDir(name)))

\* the body of the with statement of InstallTask.execute
installBody(f, name, files, delete, keep, logFile) ==
    Then(saveKeep(f, name, keep), LAMBDA g1 :
    Then(IF delete /\ exists(g1, appInstallDir(name))
         THEN rmtree(g1, appInstallDir(name)) ELSE Ok(g1), LAMBDA g2 :
    Then(makedirs(g2, appInstallDir(name)), LAMBDA g3 :
    Then(copyFiles(g3, name, files), LAMBDA g4 :
    Then(createSymlink(g4, name), LAMBDA g5 :
    Then(copyFileOrFolder(g5, TMP_DIR, appInstallDir(name)), LAMBDA g6 :
    saveLog(g6, name, logFile)))))))

\* leaving "with tempfile.TemporaryDirectory()": the directory is removed, raised or not
cleanupTmp(r) == [ok |-> r.ok, fs |-> Without(r.fs, {q \in DOMAIN r.fs : IsPrefix(TMP_DIR, q)})]

\* os.chmod(path, 0o755): modes of directories are not part of the tree
chmod(f, p) == IF exists(f, p) THEN Ok(f) ELSE Raise(f)

\* InstallTask.execute
InstallExecute(f, name, files, update, delete, keep) ==
    LET logFile == getLogFile(name, IF update THEN CMD_UPDATE ELSE CMD_INSTALL)
    IN  Then(makedirs(f, INSTALL_DIR), LAMBDA g1 :
        Then(openAppend(g1, logFile), LAMBDA g2 :
        Then(cleanupTmp(Then(mkdir(g2, TMP_DIR), LAMBDA h :
                            installBody(h, name, files, delete, keep, logFile))), LAMBDA g3 :
        chmod(g3, appInstallDir(name)))))

-----------------------------------------------------------------------------
(* class PathTask                                                          *)

\* PathTask.__init__: the message of the OptError it raises, or "ok"
PathTaskInit(f, name, target, checkTarget) ==
    IF ApplicationState(f, name) = "UNMANAGED" THEN "is not managed"
    ELSE IF checkTarget /\ ~isfile(f, target) THEN "must be a file"
    ELSE IF checkTarget /\ ~isAppFile(name, target) THEN "does not belong to application"
    ELSE IF checkTarget /\ ~access_X_OK(f, target) THEN "is not executable"
    ELSE "ok"

\* PathTask.execute with the target not looked at
PathExecute_noCheck(f, name, src, dst) ==
    LET logFile == getLogFile(name, CMD_PATH)
    IN  Then(openAppend(f, logFile), LAMBDA g1 :
        Then(IF islink(g1, dst) THEN unlink(g1, dst) ELSE Ok(g1), LAMBDA g2 :
        Then(symlink(g2, src, dst), LAMBDA g3 :
        appendLine(g3, logFile, dst))))

\* PathTask.execute with a link already at dst left as it is
PathExecute_keepOld(f, name, src, dst) ==
    LET logFile == getLogFile(name, CMD_PATH)
    IN  Then(openAppend(f, logFile), LAMBDA g1 :
            IF ~exists(g1, src) THEN Ok(g1)
            ELSE IF ~access_X_OK(g1, src) THEN Ok(g1)
            ELSE Then(IF islink(g1, dst) THEN Ok(g1) ELSE symlink(g1, src, dst), LAMBDA g3 :
                 appendLine(g3, logFile, dst)))

\* PathTask.execute: src is the target of the link, dst the link in BIN_DIR
PathExecute(f, name, src, dst) ==
    LET logFile == getLogFile(name, CMD_PATH)
    IN  Then(openAppend(f, logFile), LAMBDA g1 :
            IF ~exists(g1, src) THEN Ok(g1)
            ELSE IF ~access_X_OK(g1, src) THEN Ok(g1)
            ELSE Then(IF islink(g1, dst) THEN unlink(g1, dst) ELSE Ok(g1), LAMBDA g2 :
                 Then(symlink(g2, src, dst), LAMBDA g3 :
                 appendLine(g3, logFile, dst))))

(* The automatic choice of the executable in installOrUpdate.              *)

startswithName(c, name) == IsPrefix(Chars(name), Chars(c))
\* the sort key of an install file
fileKey(file, name) ==
    (IF startswithName(Base(file), name) THEN 1 ELSE 100) + Len(AbsStr(file))
\* the sort key of a file name found in an archive: its dirname is empty
candidateKey(c, name) ==
    (IF startswithName(c, name) THEN 1 ELSE 100) + 0 * 10 + Len(Chars(c))

RECURSIVE sortByFileKey(_, _)
\* list.sort(key=...): stable, so equal keys keep the order of the list
sortByFileKey(files, name) ==
    IF files = <<>> THEN <<>>
    ELSE With(CHOOSE k \in 1..Len(files) :
                 /\ \A j \in 1..Len(files) : fileKey(files[k], name) <= fileKey(files[j], name)
                 /\ \A j \in 1..(k - 1) : fileKey(files[j], name) # fileKey(files[k], name),
              LAMBDA i : <<files[i]>> \o
                  sortByFileKey(SubSeq(files, 1, i - 1) \o SubSeq(files, i + 1, Len(files)),
                                name))

(* The file names an archive offers: the archive is unpacked into a        *)
(* temporary directory and the files below its container directories are   *)
(* listed by name.  ok is false when unpacking raises.                     *)
archiveCandidates(f, file) ==
    With(Then(mkdir(f, TMP_DIR), LAMBDA g : extractArchive(g, file, TMP_DIR)), LAMBDA r :
        [ok |-> r.ok,
         names |-> IF r.ok
                   THEN {Base(q) : q \in getAllSubFiles(r.fs, skipContainerDirs(r.fs, TMP_DIR))}
                   ELSE {}])

\* stands for the EmptyTask and for an exception during the choice
NoTarget == <<"no target">>
DetectRaised == <<"raised">>

\* the loop over installFiles ended at its first file, executable or not
detectTargets_first(f, name, installFiles) ==
    IF installFiles = <<>> THEN {NoTarget}
    ELSE {Append(appDir(name), Base(Head(installFiles)))}

RECURSIVE detectTargets(_, _, _)
(* The loop over installFiles: the targets the PathTask may be created     *)
(* with.  fileCandidates[0] after a stable sort is any candidate of the    *)
(* least key, because os.walk lists a directory in no particular order.    *)
detectTargets(f, name, installFiles) ==
    IF installFiles = <<>> THEN {NoTarget}
    ELSE IF isArchiveFile(Head(installFiles))
         THEN With(archiveCandidates(f, Head(installFiles)), LAMBDA c :
                  IF ~c.ok THEN {DetectRaised}
                  ELSE IF c.names # {}
                       THEN {Append(appDir(name), x) :
                                x \in {x \in c.names : \A y \in c.names :
                                          candidateKey(x, name) <= candidateKey(y, name)}}
                  ELSE detectTargets(f, name, Tail(installFiles)))
    ELSE IF access_X_OK(f, Head(installFiles))
         THEN {Append(appDir(name), Base(Head(installFiles)))}
    ELSE detectTargets(f, name, Tail(installFiles))

-----------------------------------------------------------------------------
(* class RemoveTask                                                        *)

\* RemoveTaskInit with the force flag not looked at
RemoveTaskInit_noForce(f, name, force) ==
    IF ApplicationState(f, name) = "UNMANAGED" THEN "is not managed"
    ELSE IF ApplicationState(f, name) = "NEW" THEN "does not exist"
    ELSE "ok"

\* RemoveTaskInit with the force flag switching every test off
RemoveTaskInit_forceAll(f, name, force) ==
    IF force THEN "ok"
    ELSE IF ApplicationState(f, name) = "UNMANAGED" THEN "is not managed"
    ELSE IF ApplicationState(f, name) = "NEW" THEN "does not exist"
    ELSE "ok"

\* RemoveTask.__init__: the message of the OptError it raises, or "ok"
RemoveTaskInit(f, name, force) ==
    IF ~force /\ ApplicationState(f, name) = "UNMANAGED" THEN "is not managed"
    ELSE IF ApplicationState(f, name) = "NEW" THEN "does not exist"
    ELSE "ok"

\* removeCommands with the path journal read for --path-only alone
removeCommands_pathOnly(desktopOnly, pathOnly) ==
    LET removeAll == ~desktopOnly /\ ~pathOnly
    IN  (IF removeAll THEN {CMD_INSTALL, CMD_UPDATE, CMD_ALIAS, CMD_AUTOCOMPLETE} ELSE {})
        \cup (IF removeAll \/ desktopOnly THEN {CMD_DESKTOP, CMD_MENU_DEPRECATED} ELSE {})
        \cup (IF pathOnly THEN {CMD_PATH} ELSE {})

\* removeCommands with the autocomplete journal forgotten
removeCommands_noAutocomplete(desktopOnly, pathOnly) ==
    LET removeAll == ~desktopOnly /\ ~pathOnly
    IN  (IF removeAll THEN {CMD_INSTALL, CMD_UPDATE, CMD_ALIAS} ELSE {})
        \cup (IF removeAll \/ desktopOnly THEN {CMD_DESKTOP, CMD_MENU_DEPRECATED} ELSE {})
        \cup (IF removeAll \/ pathOnly THEN {CMD_PATH} ELSE {})

\* the commands whose journals the task reads
removeCommands(desktopOnly, pathOnly) ==
    LET removeAll == ~desktopOnly /\ ~pathOnly
    IN  (IF removeAll THEN {CMD_INSTALL, CMD_UPDATE, CMD_ALIAS, CMD_AUTOCOMPLETE} ELSE {})
        \cup (IF removeAll \/ desktopOnly THEN {CMD_DESKTOP, CMD_MENU_DEPRECATED} ELSE {})
        \cup (IF removeAll \/ pathOnly THEN {CMD_PATH} ELSE {})

\* removeFiles with the public and the install directory in every scope
removeFiles_everyScope(f, name, desktopOnly, pathOnly) ==
    validExisting(f, {appDir(name), appInstallDir(name)}
                     \cup UNION {Range(readLogFile(f, name, c)) :
                                     c \in removeCommands(desktopOnly, pathOnly)}, TRUE)

\* self.files, before it is sorted
removeFiles(f, name, desktopOnly, pathOnly) ==
    LET removeAll == ~desktopOnly /\ ~pathOnly
        files == (IF removeAll THEN {appDir(name), appInstallDir(name)} ELSE {})
                 \cup UNION {Range(readLogFile(f, name, c)) :
                                c \in removeCommands(desktopOnly, pathOnly)}
    IN  validExisting(f, files, TRUE)

\* self.logFiles
removeLogFiles(f, name, desktopOnly, pathOnly) ==
    validExisting(f, {getLogFile(name, c) : c \in removeCommands(desktopOnly, pathOnly)}, TRUE)

RECURSIVE removeEach(_, _)
\* the loop over self.files in RemoveTask.execute
removeEach(f, files) ==
    IF files = <<>> THEN Ok(f)
    ELSE Then(IF islink(f, Head(files)) THEN unlink(f, Head(files))
              ELSE IF isdir(f, Head(files)) THEN rmtree(f, Head(files))
              ELSE unlink(f, Head(files)),
              LAMBDA g : removeEach(g, Tail(files)))

RECURSIVE removeLogs(_, _)
\* the loop over self.logFiles in RemoveTask.execute
removeLogs(f, logFiles) ==
    IF logFiles = <<>> THEN Ok(f)
    ELSE Then(unlink(f, Head(logFiles)), LAMBDA g : removeLogs(g, Tail(logFiles)))

\* RemoveTask.execute, for the files and journals the constructor has chosen
RemoveExecute(f, files, logFiles) ==
    Then(removeEach(f, SortPaths(files)), LAMBDA g : removeLogs(g, SortPaths(logFiles)))

-----------------------------------------------------------------------------
(* class AliasTask                                                         *)

\* AliasTaskInit of the revision that lets an alias replace an installed application
AliasTaskInit_overInstalled(f, aliasName, targetName) ==
    IF targetName = aliasName THEN "must not be identical"
    ELSE IF ApplicationState(f, aliasName) = "UNMANAGED" THEN "is not managed"
    ELSE IF ApplicationState(f, targetName) = "UNMANAGED" THEN "target is not managed"
    ELSE IF ApplicationState(f, targetName) = "NEW" THEN "does not exist"
    ELSE "ok"

\* AliasTask.__init__: the message of the OptError it raises, or "ok"
AliasTaskInit(f, aliasName, targetName) ==
    IF targetName = aliasName THEN "must not be identical"
    ELSE IF ApplicationState(f, aliasName) = "UNMANAGED" THEN "is not managed"
    ELSE IF ApplicationState(f, aliasName) = "INSTALLED" THEN "is already installed"
    ELSE IF ApplicationState(f, targetName) = "UNMANAGED" THEN "target is not managed"
    ELSE IF ApplicationState(f, targetName) = "NEW" THEN "does not exist"
    ELSE "ok"

\* AliasTask.execute with a link already at installDir left as it is
AliasExecute_keepLink(f, aliasName, targetName) ==
    LET logFile == getLogFile(aliasName, CMD_ALIAS)
    IN  Then(openAppend(f, logFile), LAMBDA g1 :
        Then(IF islink(g1, appInstallDir(aliasName)) THEN Ok(g1)
             ELSE symlink(g1, appDir(targetName), appInstallDir(aliasName)), LAMBDA g3 :
        Then(appendLine(g3, logFile, appInstallDir(aliasName)), LAMBDA g4 :
            IF exists(g4, appDir(aliasName)) THEN Ok(g4)
            ELSE Then(symlink(g4, appInstallDir(aliasName), appDir(aliasName)), LAMBDA g5 :
                      appendLine(g5, logFile, appDir(aliasName))))))

\* AliasTask.execute
AliasExecute(f, aliasName, targetName) ==
    LET logFile == getLogFile(aliasName, CMD_ALIAS)
    IN  Then(openAppend(f, logFile), LAMBDA g1 :
        Then(IF islink(g1, appInstallDir(aliasName))
             THEN unlink(g1, appInstallDir(aliasName)) ELSE Ok(g1), LAMBDA g2 :
        Then(symlink(g2, appDir(targetName), appInstallDir(aliasName)), LAMBDA g3 :
        Then(appendLine(g3, logFile, appInstallDir(aliasName)), LAMBDA g4 :
            IF exists(g4, appDir(aliasName)) THEN Ok(g4)
            ELSE Then(symlink(g4, appInstallDir(aliasName), appDir(aliasName)), LAMBDA g5 :
                      appendLine(g5, logFile, appDir(aliasName)))))))

-----------------------------------------------------------------------------
(* class DesktopTask, class AutoCompleteTask                               *)

endswith(file, sfx) == IsSuffix(sfx, AbsStr(file))
DotDesktop == <<".", "d", "e", "s", "k", "t", "o", "p">>
DotPng == <<".", "p", "n", "g">>

\* DesktopTask.__init__: the message of the OptError it raises, or "ok"
DesktopTaskInit(files) ==
    IF \E file \in files : ~endswith(file, DotDesktop) /\ ~endswith(file, DotPng)
    THEN "unsupported file format" ELSE "ok"

RECURSIVE desktopCopy(_, _, _, _, _)
\* one of the two loops of DesktopTask.execute
desktopCopy(f, files, dir, exec, logFile) ==
    IF files = <<>> THEN Ok(f)
    ELSE LET dst == Append(dir, Base(Head(files)))
         IN  Then(copyfile(f, Head(files), dst), LAMBDA g1 :
             Then(IF exec THEN chmod_add_exec(g1, dst) ELSE Ok(g1), LAMBDA g2 :
             Then(appendLine(g2, logFile, dst), LAMBDA g3 :
             desktopCopy(g3, Tail(files), dir, exec, logFile))))

\* DesktopTask.execute
DesktopExecute(f, name, files) ==
    LET logFile == getLogFile(name, CMD_DESKTOP)
        desktopOps == SortPaths({file \in files : endswith(file, DotDesktop)})
        pngOps == SortPaths({file \in files : ~endswith(file, DotDesktop)})
    IN  Then(openAppend(f, logFile), LAMBDA g1 :
        Then(desktopCopy(g1, desktopOps, DESKTOP_DIR, TRUE, logFile), LAMBDA g2 :
        desktopCopy(g2, pngOps, ICON_DIR, FALSE, logFile)))

\* AutoCompleteTask.execute
AutoCompleteExecute(f, name, file) ==
    LET logFile == getLogFile(name, CMD_AUTOCOMPLETE)
        dst == Append(AUTOCOMPLETE_DIR, Base(file))
    IN  Then(makedirs(f, AUTOCOMPLETE_DIR), LAMBDA g1 :
        Then(openAppend(g1, logFile), LAMBDA g2 :
        Then(copyfile(g2, file, dst), LAMBDA g3 :
        appendLine(g3, logFile, dst))))

-----------------------------------------------------------------------------
(* The commands of main().  A handler answers the tree it leaves and how   *)
(* it ended: "ok", the message of the OptError raised before execute(), or *)
(* "exception" for any other exception, which main() catches and prints.   *)

Result(out, f) == [out |-> out, fs |-> f]
Finished(r) == Result(IF r.ok THEN "ok" ELSE "exception", r.fs)

\* the targets the PathTask of an install may get; NoTarget stands for the EmptyTask
pathTargets(f, name, files, update, noPath) ==
    IF update \/ noPath THEN {NoTarget}
    ELSE detectTargets(f, name, sortByFileKey(SortPaths(files), name))

\* installOrUpdate(args, update), with the PathTask's target chosen as `target`
installOrUpdate(f, name, files, update, delete, keep, noPath, target) ==
    IF validNonExisting(f, files, FALSE) # {} THEN Result("files do not exist", f)
    ELSE With(InstallTaskInit(f, name, update, IF update THEN keep ELSE <<>>), LAMBDA init :
        IF init # "ok" THEN Result(init, f)
        ELSE IF target = DetectRaised THEN Result("exception", f)
        ELSE With(InstallExecute(f, name, SortPaths(files), update, update /\ delete,
                                 SortPaths(Range(IF update THEN keep ELSE <<>>))), LAMBDA r :
                 IF ~r.ok \/ target = NoTarget THEN Finished(r)
                 ELSE Finished(PathExecute(r.fs, name, target,
                                           Append(BIN_DIR, Base(target))))))

\* remove(args)
remove(f, name, desktopOnly, pathOnly, force) ==
    With(RemoveTaskInit(f, name, force), LAMBDA init :
        IF init # "ok" THEN Result(init, f)
        ELSE Finished(RemoveExecute(f, removeFiles(f, name, desktopOnly, pathOnly),
                                    removeLogFiles(f, name, desktopOnly, pathOnly))))

\* alias with the journal opened before the task is constructed
alias_logFirst(f, name, target) ==
    With(openAppend(f, getLogFile(name, CMD_ALIAS)).fs, LAMBDA g :
        With(AliasTaskInit(g, name, target), LAMBDA init :
            IF init # "ok" THEN Result(init, g) ELSE Finished(AliasExecute(g, name, target))))

\* alias(args)
alias(f, name, target) ==
    With(AliasTaskInit(f, name, target), LAMBDA init :
        IF init # "ok" THEN Result(init, f) ELSE Finished(AliasExecute(f, name, target)))

\* path(args); linkName is "" when --link-name is not given
path(f, name, file, linkName) ==
    IF ~exists(f, file) THEN Result("files do not exist", f)
    ELSE With(PathTaskInit(f, name, file, TRUE), LAMBDA init :
        IF init # "ok" THEN Result(init, f)
        ELSE Finished(PathExecute(f, name, file,
                 Append(BIN_DIR, IF linkName = "" THEN Base(file) ELSE linkName))))

\* desktop(args)
desktop(f, name, files) ==
    IF validNonExisting(f, files, FALSE) # {} THEN Result("files do not exist", f)
    ELSE IF DesktopTaskInit(files) # "ok" THEN Result(DesktopTaskInit(files), f)
    ELSE Finished(DesktopExecute(f, name, files))

\* autocomplete(args)
autocomplete(f, name, file) ==
    IF ~exists(f, file) THEN Result("files do not exist", f)
    ELSE Finished(AutoCompleteExecute(f, name, file))

\* the messages of the OptErrors
ValidationErrors ==
    {"files do not exist", "is an alias", "is not managed", "does not exist",
     "is already installed", "file does not exist", "does not belong to application",
     "must be a file", "is not executable", "must not be identical",
     "target is not managed", "unsupported file format"}

-----------------------------------------------------------------------------
(* The state machine: one action for each command of main().               *)

File1 == Append(RES_DIR, "f1")
File2 == Append(RES_DIR, "f2")
FlatTar == Append(RES_DIR, "t.tar")
WrappedTar == Append(RES_DIR, "w.tar")
Missing == Append(RES_DIR, "none")
DesktopFile == Append(RES_DIR, "d.desktop")
IconFile == Append(RES_DIR, "i.png")

\* the tree the program starts from: the fixed directories and the input files
EmptyRoot ==
    [q \in {OPT_DIR, BIN_DIR, DESKTOP_DIR, AUTOCOMPLETE_DIR, ICON_DIR, RES_DIR,
            Parent(TMP_DIR)} |-> Dir]
    @@ (File1 :> File(Data1, FALSE)) @@ (File2 :> File(Data2, TRUE))
    @@ (FlatTar :> File(ArchiveData("t"), FALSE))
    @@ (WrappedTar :> File(ArchiveData("w"), FALSE))
    @@ (DesktopFile :> File(Data1, FALSE)) @@ (IconFile :> File(Data2, FALSE))

NoCmd == [op |-> "none"]

Init ==
    /\ fs = EmptyRoot
    /\ before = EmptyRoot
    /\ cmd = NoCmd
    /\ outcome = "none"
    /\ pc = "idle"
    /\ steps = 0

\* main() runs the command c and ends with the result r
Ran(c, r) ==
    /\ pc = "idle"
    /\ steps < MaxSteps
    /\ before' = fs
    /\ cmd' = c
    /\ outcome' = r.out
    /\ fs' = r.fs
    /\ pc' = "done"
    /\ steps' = steps + 1

\* the process ends; the next invocation starts from the tree it left
Exit ==
    /\ pc = "done"
    /\ pc' = "idle"
    /\ before' = fs
    /\ cmd' = NoCmd
    /\ outcome' = "none"
    /\ UNCHANGED <<fs, steps>>

Install(names, fileSets) ==
    \E name \in names, files \in fileSets, noPath \in BOOLEAN :
        \E target \in pathTargets(fs, name, files, FALSE, noPath) :
            Ran([op |-> CMD_INSTALL, name |-> name, files |-> files, noPath |-> noPath,
                 target |-> target],
                installOrUpdate(fs, name, files, FALSE, FALSE, <<>>, noPath, target))

Update(names, fileSets, keeps) ==
    \E name \in names, files \in fileSets, delete \in BOOLEAN :
        \E keep \in keeps[name] :
            Ran([op |-> CMD_UPDATE, name |-> name, files |-> files, delete |-> delete,
                 keep |-> keep],
                installOrUpdate(fs, name, files, TRUE, delete, keep, FALSE, NoTarget))

Remove(names, scopes) ==
    \E name \in names, scope \in scopes, force \in BOOLEAN :
        Ran([op |-> CMD_REMOVE, name |-> name, desktopOnly |-> scope[1],
             pathOnly |-> scope[2], force |-> force],
            remove(fs, name, scope[1], scope[2], force))

Alias(names) ==
    \E name \in names, target \in names :
        Ran([op |-> CMD_ALIAS, name |-> name, target |-> target], alias(fs, name, target))

Path(names, files, linkNames) ==
    \E name \in names, linkName \in linkNames :
        \E file \in files[name] :
            Ran([op |-> CMD_PATH, name |-> name, file |-> file, linkName |-> linkName],
                path(fs, name, file, linkName))

Desktop(names, fileSets) ==
    \E name \in names, files \in fileSets :
        Ran([op |-> CMD_DESKTOP, name |-> name, files |-> files], desktop(fs, name, files))

AutoComplete(names, files) ==
    \E name \in names, file \in files :
        Ran([op |-> CMD_AUTOCOMPLETE, name |-> name, file |-> file],
            autocomplete(fs, name, file))

-----------------------------------------------------------------------------
(* What happens around the program: somebody creates a directory where an  *)
(* application's public or install directory belongs (os.makedirs in the   *)
(* tests), which is how an application gets to be UNMANAGED.               *)

Foreign(names) ==
    \E p \in {appDir(name) : name \in names} \cup {appInstallDir(name) : name \in names} :
        /\ pc = "idle"
        /\ steps < MaxSteps
        /\ ~lexists(fs, p)
        /\ fs' = makedirs(fs, p).fs
        /\ before' = fs'
        /\ steps' = steps + 1
        /\ UNCHANGED <<cmd, outcome, pc>>

-----------------------------------------------------------------------------
(* Spec: every command, with few arguments each, and foreign directories.  *)

Names == {"a", "ab"}
InstallFileSets == {{File2}, {Missing}}
UpdateFileSets == {{File1}}
Keeps == [name \in AppNames |-> {<<>>, <<Append(appDir(name), "f2")>>, <<File2>>}]
Scopes == {<<FALSE, FALSE>>, <<TRUE, FALSE>>, <<FALSE, TRUE>>}
PathFiles == [name \in AppNames |-> {Append(appDir(name), "f2"), File2}]
LinkNames == {""}
DesktopFileSets == {{DesktopFile, IconFile}, {File1}}
AutoCompleteFiles == {File1, Missing}

Next ==
    \/ Install(Names, InstallFileSets)
    \/ Update(Names, UpdateFileSets, Keeps)
    \/ Remove(Names, Scopes)
    \/ Alias(Names)
    \/ Path(Names, PathFiles, LinkNames)
    \/ Desktop(Names, DesktopFileSets)
    \/ AutoComplete(Names, AutoCompleteFiles)
    \/ Foreign(Names)
    \/ Exit

Spec == Init /\ [][Next]_vars

-----------------------------------------------------------------------------
(* The claims. A finished command is looked at in the state it leaves:     *)
(* `before` is the tree it started from and `fs` the tree it ended with.   *)

\* the command op has just run
Did(op) == pc = "done" /\ cmd.op = op

\* the state of the application the command names, before and after
StateBefore == ApplicationState(before, cmd.name)
StateAfter == ApplicationState(fs, cmd.name)

\* every input file of the install or update exists
InputsExist == validNonExisting(before, cmd.files, FALSE) = {}

\* the paths written in the journals of the application called name
Journaled(f, name) == UNION {Range(readLogFile(f, name, c)) : c \in Commands}

\* C1: the state of every application is decided by three facts, whether
\* appDir exists, whether installDir exists and whether the alias journal
\* exists: NEW iff neither directory exists, UNMANAGED iff exactly one does,
\* ALIAS iff both do and the alias journal does, INSTALLED iff both do and
\* the alias journal does not.
C1_StateResolution ==
    \A name \in AppNames :
        LET a == Real(fs, appDir(name)) # NONE
            i == Real(fs, appInstallDir(name)) # NONE
            j == Real(fs, getLogFile(name, CMD_ALIAS)) # NONE
            state == ApplicationState(fs, name)
        IN  /\ state \in {"NEW", "UNMANAGED", "ALIAS", "INSTALLED"}
            /\ state = "NEW" <=> ~a /\ ~i
            /\ state = "UNMANAGED" <=> (a /\ ~i) \/ (~a /\ i)
            /\ state = "ALIAS" <=> a /\ i /\ j
            /\ state = "INSTALLED" <=> a /\ i /\ ~j

\* C1's case: an alias next to the installed application it points at, and
\* a third name that is still new
C1_Witness ==
    \E name, target \in Names :
        /\ ApplicationState(fs, name) = "ALIAS"
        /\ ApplicationState(fs, target) = "INSTALLED"
        /\ ApplicationState(fs, "c") = "NEW"

\* C1's other case: a directory somebody made, with only installDir there
C1_Unmanaged ==
    \E name \in Names :
        /\ ApplicationState(fs, name) = "UNMANAGED"
        /\ ~lexists(fs, appDir(name))

\* C2: an install of a NEW application from existing files succeeds and
\* leaves it INSTALLED, appDir a symbolic link whose real path is installDir
\* or the directory reached from it by skipping container directories.
C2_InstallOnNew ==
    Did(CMD_INSTALL) /\ StateBefore = "NEW" /\ InputsExist
        => /\ outcome = "ok"
           /\ StateAfter = "INSTALLED"
           /\ islink(fs, appDir(cmd.name))
           /\ Real(fs, appDir(cmd.name)) = skipContainerDirs(fs, appInstallDir(cmd.name))

\* an install of a NEW application whose appDir and installDir are dangling
\* links left by the removal of an alias's target
C2_DanglingInstall ==
    /\ Did(CMD_INSTALL) /\ StateBefore = "NEW" /\ InputsExist
    /\ islink(before, appInstallDir(cmd.name))
    /\ outcome = "exception"

\* C3: an install is constructed iff the application is NEW; for an ALIAS,
\* an UNMANAGED and an INSTALLED application it is rejected with the message
\* of that state and the tree is left as it was.
C3_InstallIffNew ==
    Did(CMD_INSTALL) /\ InputsExist
        => /\ outcome \notin ValidationErrors <=> StateBefore = "NEW"
           /\ StateBefore = "ALIAS" => outcome = "is an alias"
           /\ StateBefore = "UNMANAGED" => outcome = "is not managed"
           /\ StateBefore = "INSTALLED" => outcome = "is already installed"
           /\ StateBefore # "NEW" => fs = before

\* C3's case: a second install over an installed application
C3_Witness ==
    /\ Did(CMD_INSTALL) /\ InputsExist
    /\ StateBefore = "INSTALLED"
    /\ outcome = "is already installed"
    /\ fs = before

\* the messages with which InstallTask and RemoveTask reject a state
StateErrors == {"is an alias", "is not managed", "does not exist", "is already installed"}

\* C4: an update is rejected for the state of the application iff that
\* state is not INSTALLED, and an update of an INSTALLED application whose
\* keep paths pass is constructed; an update aimed at an ALIAS is rejected
\* as an alias, its installDir stays the symbolic link it was and the tree,
\* the files reached through the link included, is left as it was.
C4_UpdateIffInstalled ==
    Did(CMD_UPDATE) /\ InputsExist
        => /\ outcome \in StateErrors <=> StateBefore # "INSTALLED"
           /\ outcome \notin ValidationErrors => StateBefore = "INSTALLED"
           /\ StateBefore = "INSTALLED" /\ KeepError(before, cmd.name, cmd.keep) = "ok"
                  => outcome \notin ValidationErrors
           /\ StateBefore = "ALIAS"
                  => /\ outcome = "is an alias"
                     /\ islink(fs, appInstallDir(cmd.name))
                     /\ fs = before

\* C4's case: an update aimed at an alias of an installed application
C4_Witness ==
    /\ Did(CMD_UPDATE) /\ InputsExist
    /\ StateBefore = "ALIAS"
    /\ \E target \in Names : Real(before, appInstallDir(cmd.name)) = Real(before, appDir(target))
                             /\ ApplicationState(before, target) = "INSTALLED"
    /\ outcome = "is an alias"

\* C5: an install, update, remove, alias or path command that ends with a
\* validation error leaves the tree as it was, the existence of the
\* .installer directory included.
C5_RejectedChangesNothing ==
    pc = "done" /\ cmd.op \in {CMD_INSTALL, CMD_UPDATE, CMD_REMOVE, CMD_ALIAS, CMD_PATH}
        /\ outcome \in ValidationErrors
        => /\ fs = before
           /\ lexists(fs, INSTALL_DIR) <=> lexists(before, INSTALL_DIR)

\* C5's case: an alias command rejected before .installer was ever made
C5_Witness ==
    /\ Did(CMD_ALIAS)
    /\ outcome \in ValidationErrors
    /\ ~lexists(before, INSTALL_DIR)
    /\ ~lexists(fs, INSTALL_DIR)

\* C6: a remove with default scope of an INSTALLED application succeeds,
\* deletes appDir, installDir and every path written in any of its journals,
\* and leaves the application NEW.
C6_RemoveInstalled ==
    Did(CMD_REMOVE) /\ ~cmd.desktopOnly /\ ~cmd.pathOnly /\ StateBefore = "INSTALLED"
        => /\ outcome = "ok"
           /\ ~lexists(fs, appDir(cmd.name))
           /\ ~lexists(fs, appInstallDir(cmd.name))
           /\ \A q \in Journaled(before, cmd.name) : ~lexists(fs, q)
           /\ StateAfter = "NEW"

\* C6's case: the removed application had a link in the bin directory
C6_Witness ==
    /\ Did(CMD_REMOVE) /\ ~cmd.desktopOnly /\ ~cmd.pathOnly /\ StateBefore = "INSTALLED"
    /\ islink(before, appDir(cmd.name))
    /\ \E q \in Range(readLogFile(before, cmd.name, CMD_PATH)) : islink(before, q)
    /\ outcome = "ok"

\* no other application has anything in the tree f
OnlyApp(f, name) ==
    /\ \A q \in DOMAIN f : Len(q) > Len(INSTALL_DIR) /\ IsPrefix(INSTALL_DIR, q)
           => q[Len(INSTALL_DIR) + 1] \in {name} \cup {name \o "." \o c : c \in Commands}
    /\ \A q \in DOMAIN f : Len(q) > Len(OPT_DIR) /\ IsPrefix(OPT_DIR, q)
           => q[Len(OPT_DIR) + 1] \in {name, INSTALL_DIR[Len(INSTALL_DIR)]}

\* the directories the commands put files in
SharedDirs == {BIN_DIR, DESKTOP_DIR, ICON_DIR, AUTOCOMPLETE_DIR, INSTALL_DIR}

\* C7: after a remove with default scope of an installed application that
\* was given path links, desktop entries or autocomplete scripts, no journal
\* of any kind is left for its name, nothing its journals named is left, and
\* nothing of its name is left under .installer; when no other application
\* has anything in the tree, the bin, desktop, icon, autocomplete and
\* .installer directories are left empty.
C7_RemoveLeavesNothing ==
    Did(CMD_REMOVE) /\ ~cmd.desktopOnly /\ ~cmd.pathOnly /\ StateBefore = "INSTALLED"
        => /\ \A c \in Commands : ~lexists(fs, getLogFile(cmd.name, c))
           /\ \A q \in Journaled(before, cmd.name) : ~lexists(fs, q)
           /\ \A q \in DOMAIN fs : Len(q) > Len(INSTALL_DIR) /\ IsPrefix(INSTALL_DIR, q)
                  => q[Len(INSTALL_DIR) + 1]
                         \notin {cmd.name} \cup {cmd.name \o "." \o c : c \in Commands}
           /\ OnlyApp(before, cmd.name)
                  => \A d \in SharedDirs : lexists(fs, d) => listdir(fs, d) = {}

\* C7's case: the removed application had a path link, desktop entries and
\* an autocomplete script, and no other application had anything
C7_Witness ==
    /\ Did(CMD_REMOVE) /\ ~cmd.desktopOnly /\ ~cmd.pathOnly /\ StateBefore = "INSTALLED"
    /\ readLogFile(before, cmd.name, CMD_PATH) # <<>>
    /\ readLogFile(before, cmd.name, CMD_DESKTOP) # <<>>
    /\ readLogFile(before, cmd.name, CMD_AUTOCOMPLETE) # <<>>
    /\ OnlyApp(before, cmd.name)
    /\ outcome = "ok"

\* C8: a remove of an UNMANAGED application without force is rejected as
\* not managed and leaves the tree as it was; with force, and default scope,
\* it succeeds, deletes whichever of appDir and installDir exists, nothing
\* else but what the application's journals name, and leaves it NEW.
C8_RemoveUnmanaged ==
    Did(CMD_REMOVE) /\ StateBefore = "UNMANAGED"
        => /\ ~cmd.force => outcome = "is not managed" /\ fs = before
           /\ cmd.force => outcome = "ok"
           /\ cmd.force /\ ~cmd.desktopOnly /\ ~cmd.pathOnly
                  => /\ ~lexists(fs, appDir(cmd.name))
                     /\ ~lexists(fs, appInstallDir(cmd.name))
                     /\ StateAfter = "NEW"
                     /\ \A q \in DOMAIN before \ DOMAIN fs :
                            \/ IsPrefix(appDir(cmd.name), q)
                            \/ IsPrefix(appInstallDir(cmd.name), q)
                            \/ q \in Journaled(before, cmd.name)
                            \/ q \in {getLogFile(cmd.name, c) : c \in Commands}

\* C8's case: a forced remove of a directory somebody made at appDir
C8_Witness ==
    /\ Did(CMD_REMOVE) /\ StateBefore = "UNMANAGED"
    /\ cmd.force /\ ~cmd.desktopOnly /\ ~cmd.pathOnly
    /\ isdir(before, appDir(cmd.name))
    /\ ~lexists(before, appInstallDir(cmd.name))
    /\ outcome = "ok"

\* C8's other case: the same remove without force
C8_Refused ==
    /\ Did(CMD_REMOVE) /\ StateBefore = "UNMANAGED"
    /\ ~cmd.force
    /\ outcome = "is not managed"

\* C9: a remove of a NEW application is rejected with "does not exist"
\* whatever its flags, and deletes nothing.
C9_RemoveNew ==
    Did(CMD_REMOVE) /\ StateBefore = "NEW"
        => /\ outcome = "does not exist"
           /\ fs = before

\* C9's case: a forced remove, narrowed to the path links, of a new application
C9_Witness ==
    /\ Did(CMD_REMOVE) /\ StateBefore = "NEW"
    /\ cmd.force /\ cmd.pathOnly
    /\ outcome = "does not exist"

\* C10: an alias is constructed iff the two names differ, the alias is NEW
\* or ALIAS and the target is INSTALLED or ALIAS; an alias over an INSTALLED
\* application is rejected, and the installDir of neither application
\* becomes a symbolic link.
C10_AliasConstruction ==
    Did(CMD_ALIAS)
        => /\ outcome \notin ValidationErrors
                  <=> /\ cmd.name # cmd.target
                      /\ ApplicationState(before, cmd.name) \in {"NEW", "ALIAS"}
                      /\ ApplicationState(before, cmd.target) \in {"INSTALLED", "ALIAS"}
           /\ ApplicationState(before, cmd.name) = "INSTALLED"
                  => /\ outcome \in ValidationErrors
                     /\ fs = before
                     /\ \A name \in {cmd.name, cmd.target} :
                            islink(fs, appInstallDir(name))
                                => islink(before, appInstallDir(name))

\* C10's case: an alias aimed over one installed application at another
C10_Witness ==
    /\ Did(CMD_ALIAS)
    /\ cmd.name # cmd.target
    /\ ApplicationState(before, cmd.name) = "INSTALLED"
    /\ ApplicationState(before, cmd.target) = "INSTALLED"
    /\ outcome = "is already installed"
    /\ ~islink(fs, appInstallDir(cmd.name))

\* C10's other case: an alias is made, and made again
C10_Realias ==
    /\ Did(CMD_ALIAS)
    /\ ApplicationState(before, cmd.name) = "ALIAS"
    /\ outcome = "ok"

-----------------------------------------------------------------------------
(* SpecAlias: three applications that are installed, aliased to one        *)
(* another and removed, and nothing else.                                  *)

AliasNames == {"a", "ab", "c"}
AliasFileSets == {{File1}, {File2}}
DefaultScope == {<<FALSE, FALSE>>}

NextAlias ==
    \/ Install(AliasNames, AliasFileSets)
    \/ Alias(AliasNames)
    \/ Remove(AliasNames, DefaultScope)
    \/ Exit

SpecAlias == Init /\ [][NextAlias]_vars

-----------------------------------------------------------------------------
(* SpecInstalled: the commands of SpecAlias, started from the tree that    *)
(* `install --no-path a f1` and `install --no-path c f2` leave.            *)

InstalledRoot ==
    installOrUpdate(
        installOrUpdate(EmptyRoot, "a", {File1}, FALSE, FALSE, <<>>, TRUE, NoTarget).fs,
        "c", {File2}, FALSE, FALSE, <<>>, TRUE, NoTarget).fs

InitInstalled ==
    /\ fs = InstalledRoot
    /\ before = InstalledRoot
    /\ cmd = NoCmd
    /\ outcome = "none"
    /\ pc = "idle"
    /\ steps = 0

SpecInstalled == InitInstalled /\ [][NextAlias]_vars

\* C12: an alias executed for an application that resolves as NEW creates
\* the link installDir(alias) -> appDir(target) and the link appDir(alias)
\* -> installDir(alias), appends the two created paths to the alias journal,
\* and the alias then resolves as ALIAS.
C12_AliasOnNew ==
    Did(CMD_ALIAS) /\ ApplicationState(before, cmd.name) = "NEW"
                   /\ outcome \notin ValidationErrors
        => /\ outcome = "ok"
           /\ ~lexists(before, appInstallDir(cmd.name))
           /\ ~lexists(before, appDir(cmd.name))
           /\ fs[appInstallDir(cmd.name)] = Link(appDir(cmd.target))
           /\ fs[appDir(cmd.name)] = Link(appInstallDir(cmd.name))
           /\ readLogFile(fs, cmd.name, CMD_ALIAS)
                  = readLogFile(before, cmd.name, CMD_ALIAS)
                        \o <<appInstallDir(cmd.name), appDir(cmd.name)>>
           /\ ApplicationState(fs, cmd.name) = "ALIAS"

\* C12 where neither path of the alias is on disk before, dangling or not
C12_AliasOnAbsent ==
    Did(CMD_ALIAS) /\ ApplicationState(before, cmd.name) = "NEW"
                   /\ outcome \notin ValidationErrors
                   /\ ~lexists(before, appInstallDir(cmd.name))
                   /\ ~lexists(before, appDir(cmd.name))
        => /\ outcome = "ok"
           /\ fs[appInstallDir(cmd.name)] = Link(appDir(cmd.target))
           /\ fs[appDir(cmd.name)] = Link(appInstallDir(cmd.name))
           /\ readLogFile(fs, cmd.name, CMD_ALIAS)
                  = <<appInstallDir(cmd.name), appDir(cmd.name)>>
           /\ ApplicationState(fs, cmd.name) = "ALIAS"

-----------------------------------------------------------------------------
(* SpecOwn: the commands of the program on the empty root, and nobody else *)
(* writing below the opt directory.                                        *)

NextOwn ==
    \/ Install(Names, InstallFileSets)
    \/ Update(Names, UpdateFileSets, Keeps)
    \/ Remove(Names, Scopes)
    \/ Alias(Names)
    \/ Path(Names, PathFiles, LinkNames)
    \/ Exit

SpecOwn == Init /\ [][NextOwn]_vars

\* C13: from the empty root, after any sequence of install, update, alias,
\* path and remove commands, every application has its appDir and its
\* installDir both present or both absent, links followed or not: no
\* application resolves as UNMANAGED.
C13_NeverUnmanaged ==
    \A name \in AppNames :
        /\ exists(fs, appDir(name)) <=> exists(fs, appInstallDir(name))
        /\ lexists(fs, appDir(name)) <=> lexists(fs, appInstallDir(name))
        /\ ApplicationState(fs, name) # "UNMANAGED"

\* C13's case: a remove has taken the target of an alias away, and the two
\* links of the alias are left, both of them dangling
C13_Witness ==
    /\ Did(CMD_REMOVE) /\ outcome = "ok"
    /\ \E name \in AppNames :
           /\ ApplicationState(before, name) = "ALIAS"
           /\ islink(fs, appDir(name)) /\ ~exists(fs, appDir(name))
           /\ islink(fs, appInstallDir(name)) /\ ~exists(fs, appInstallDir(name))

\* C14: from the empty root, after any sequence of install, update, alias
\* and remove commands, every appDir present on disk is a symbolic link that
\* resolves, through the chain of aliases if there is one, to an existing
\* directory inside the installDir of an installed application: no appDir
\* is left dangling.
C14_AppDirResolves ==
    \A name \in AppNames :
        lexists(fs, appDir(name))
            => /\ islink(fs, appDir(name))
               /\ isdir(fs, appDir(name))
               /\ \E owner \in AppNames :
                      /\ ApplicationState(fs, owner) = "INSTALLED"
                      /\ fs[appInstallDir(owner)] = Dir
                      /\ IsPrefix(appInstallDir(owner), Real(fs, appDir(name)))

\* C15: a dangling symbolic link at appDir or installDir counts as present
\* in the state resolution: an application with both paths on disk, dangling
\* or not, resolves as ALIAS or INSTALLED and not as NEW, and one with
\* exactly one of them on disk resolves as UNMANAGED.
C15_DanglingCounts ==
    \A name \in AppNames :
        /\ lexists(fs, appDir(name)) /\ lexists(fs, appInstallDir(name))
               => ApplicationState(fs, name) \in {"ALIAS", "INSTALLED"}
        /\ lexists(fs, appDir(name)) # lexists(fs, appInstallDir(name))
               => ApplicationState(fs, name) = "UNMANAGED"

-----------------------------------------------------------------------------
(* SpecUpdate: applications installed from an archive, flat or wrapped in  *)
(* a directory, whose files the user edits and which are then updated with *)
(* and without --delete and --keep.                                        *)

\* the user rewrites a file of an installed application, as the update tests do
Edit(names, rels) ==
    \E name \in names, rel \in rels :
        /\ pc = "idle"
        /\ steps < MaxSteps
        /\ isfile(fs, Append(appDir(name), rel))
        /\ fs[Real(fs, Append(appDir(name), rel))].data # Edited
        /\ fs' = writefile(fs, Append(appDir(name), rel), Edited,
                           fs[Real(fs, Append(appDir(name), rel))].x).fs
        /\ before' = fs'
        /\ steps' = steps + 1
        /\ UNCHANGED <<cmd, outcome, pc>>

ArchiveSets == {{FlatTar}, {WrappedTar}}
NewFileSets == {{File1}, {File2}, {WrappedTar}}
EditedFiles == {"f1"}
UpdateNames == {"a"}
UpdateKeeps == [name \in AppNames |-> {<<>>, <<Append(appDir(name), "f1")>>, <<File2>>}]

NextUpdate ==
    \/ Install(UpdateNames, ArchiveSets)
    \/ Edit(UpdateNames, EditedFiles)
    \/ Update(UpdateNames, NewFileSets, UpdateKeeps)
    \/ Exit

SpecUpdate == Init /\ [][NextUpdate]_vars

\* the keep paths of the update that lie in the tree of its own application
OwnKeeps == {k \in Range(cmd.keep) : IsPrefix(appDir(cmd.name), k)}

\* C16: after an update, with or without --delete, every keep path under
\* appDir is a file with the content it had before the update when it is
\* looked at through appDir, also where the input of the update brings a
\* file of the same relative path.
C16_KeptWins ==
    Did(CMD_UPDATE) /\ outcome = "ok"
        => \A k \in OwnKeeps :
               /\ isfile(fs, k)
               /\ fs[Real(fs, k)].data = before[Real(before, k)].data

\* what one input of an install or update brings, as a tree below installDir
Supplied(f, file) ==
    IF isArchiveFile(file) THEN Payload(f[Real(f, file)].data[1][2])
    ELSE IF isdir(f, file) THEN TreeAt(f, file)
    ELSE (<<Base(file)>> :> f[Real(f, file)])

\* the inputs of the command together (no two of them bring the same path)
SuppliedTree ==
    [r \in UNION {DOMAIN Supplied(before, file) : file \in cmd.files} |->
        Supplied(before, CHOOSE file \in cmd.files : r \in DOMAIN Supplied(before, file))[r]]

\* the kept files of the command under their paths relative to appDir, and
\* the directories these paths go through
KeptTree ==
    LET rels == {RelTo(appDir(cmd.name), k) : k \in OwnKeeps}
        dirs == UNION {{SubSeq(r, 1, n) : n \in 1..(Len(r) - 1)} : r \in rels}
    IN  [r \in rels \cup dirs |->
            IF r \in rels THEN before[Real(before, appDir(cmd.name) \o r)] ELSE Dir]

\* t with the entries of u put over it
Overlay(t, u) == [r \in DOMAIN t \cup DOMAIN u |-> IF r \in DOMAIN u THEN u[r] ELSE t[r]]

\* C17: after an update with --delete, installDir holds exactly the files
\* the new input brings and the kept files: every supplied file and every
\* kept file is there, and every file that was there before and is neither
\* kept nor supplied is gone.
C17_DeleteLeavesInputAndKept ==
    Did(CMD_UPDATE) /\ cmd.delete /\ outcome = "ok"
        => TreeAt(fs, appInstallDir(cmd.name)) = Overlay(SuppliedTree, KeptTree)

\* C17's case: an update with --delete that keeps an edited f1, brings
\* another file and takes a file away that was there before
C17_Witness ==
    /\ Did(CMD_UPDATE) /\ cmd.delete /\ outcome = "ok"
    /\ cmd.keep = <<Append(appDir(cmd.name), "f1")>>
    /\ before[Real(before, Append(appDir(cmd.name), "f1"))].data = Edited
    /\ \E r \in DOMAIN TreeAt(before, appInstallDir(cmd.name)) :
           r \notin DOMAIN TreeAt(fs, appInstallDir(cmd.name))
    /\ \E r \in DOMAIN TreeAt(fs, appInstallDir(cmd.name)) :
           r \notin DOMAIN TreeAt(before, appInstallDir(cmd.name))

\* an update without --delete and without --keep that went through
PlainUpdate == Did(CMD_UPDATE) /\ ~cmd.delete /\ cmd.keep = <<>> /\ outcome = "ok"

\* the supplied files are in installDir with the content of the input
SuppliedIsNew ==
    \A r \in DOMAIN SuppliedTree :
        /\ r \in DOMAIN TreeAt(fs, appInstallDir(cmd.name))
        /\ TreeAt(fs, appInstallDir(cmd.name))[r] = SuppliedTree[r]

\* the path below installDir of what appDir showed under r before the update
InstallRel(r) == RelTo(appInstallDir(cmd.name), Real(before, appDir(cmd.name))) \o r

\* C18 as it is stated: after an update without --delete and without
\* --keep every supplied file has the new content, and every file the
\* application had before whose relative path the input does not bring is
\* still at the same path under appDir with the content it had.
C18_AdditiveUnderAppDir ==
    PlainUpdate
        => /\ SuppliedIsNew
           /\ \A r \in DOMAIN TreeAt(before, appDir(cmd.name)) :
                  r \notin DOMAIN SuppliedTree /\ InstallRel(r) \notin DOMAIN SuppliedTree
                      => /\ r \in DOMAIN TreeAt(fs, appDir(cmd.name))
                         /\ TreeAt(fs, appDir(cmd.name))[r] = TreeAt(before, appDir(cmd.name))[r]

\* C18, amended: after an update without --delete and without --keep every
\* supplied file has the new content, and every file that was in installDir
\* before and that the input does not bring is still at the same path under
\* installDir with the content it had; installDir holds nothing else.
C18_AdditiveUnderInstallDir ==
    PlainUpdate
        => /\ SuppliedIsNew
           /\ TreeAt(fs, appInstallDir(cmd.name))
                  = Overlay(TreeAt(before, appInstallDir(cmd.name)), SuppliedTree)

\* C18's case: the update brings f1 again, which the user had edited, and
\* not f2, which the application had before
C18_Witness ==
    /\ PlainUpdate
    /\ <<"f1">> \in DOMAIN SuppliedTree
    /\ <<"f1">> \in DOMAIN TreeAt(before, appInstallDir(cmd.name))
    /\ <<"f1">> \in DOMAIN TreeAt(fs, appInstallDir(cmd.name))
    /\ TreeAt(before, appInstallDir(cmd.name))[<<"f1">>].data = Edited
    /\ TreeAt(fs, appInstallDir(cmd.name))[<<"f1">>].data = Data1
    /\ <<"f2">> \in DOMAIN TreeAt(before, appInstallDir(cmd.name))
    /\ <<"f2">> \notin DOMAIN SuppliedTree

-----------------------------------------------------------------------------
(* SpecKeep: two applications, the name of one the beginning of the name   *)
(* of the other, updated with keep paths of their own, of the other        *)
(* application, of no application, and of nothing on disk.                 *)

KeepFileSets == {{File1}}
KeepUpdateSets == {{File2}}
KeepPaths ==
    [name \in AppNames |-> {<<Append(appDir("a"), "f1")>>, <<Append(appDir("ab"), "f1")>>,
                            <<File1>>, <<Missing>>}]

NextKeep ==
    \/ Install(Names, KeepFileSets)
    \/ Update(Names, KeepUpdateSets, KeepPaths)
    \/ Exit

SpecKeep == Init /\ [][NextKeep]_vars

\* the keep paths of the update that are not on disk or not in the tree
\* below the appDir of its application
BadKeeps ==
    {k \in Range(cmd.keep) : ~exists(before, k) \/ ~IsPrefix(appDir(cmd.name), k)}

\* C19: the construction of an update fails with a validation error, and
\* nothing is changed, when a keep path does not exist or does not lie in
\* the tree below the application's own appDir; a path in the directory of
\* another application is rejected also where that application's name
\* begins with the name of this one.
C19_KeepValidated ==
    Did(CMD_UPDATE) /\ BadKeeps # {}
        => /\ outcome \in ValidationErrors
           /\ fs = before

\* C19 without the paths of applications whose name begins with this name
C19_KeepValidatedOtherwise ==
    Did(CMD_UPDATE) /\ (\E k \in BadKeeps : ~isAppFile(cmd.name, k) \/ ~exists(before, k))
        => /\ outcome \in ValidationErrors
           /\ fs = before

\* the two paths an install or update writes to its journal
JournalPair == <<appInstallDir(cmd.name), appDir(cmd.name)>>

\* C20: after a successful install of a NEW application its .install
\* journal holds the path of installDir and the path of appDir, in two
\* lines, and nothing else; a successful update appends the same two paths
\* to the .update journal and leaves the .install journal as it was.
C20_Journals ==
    /\ Did(CMD_INSTALL) /\ StateBefore = "NEW" /\ outcome = "ok"
           => /\ isfile(fs, getLogFile(cmd.name, CMD_INSTALL))
              /\ readLogFile(fs, cmd.name, CMD_INSTALL) = JournalPair
    /\ Did(CMD_UPDATE) /\ outcome = "ok"
           => /\ isfile(fs, getLogFile(cmd.name, CMD_UPDATE))
              /\ readLogFile(fs, cmd.name, CMD_UPDATE)
                     = readLogFile(before, cmd.name, CMD_UPDATE) \o JournalPair
              /\ isfile(fs, getLogFile(cmd.name, CMD_INSTALL))
              /\ fs[getLogFile(cmd.name, CMD_INSTALL)]
                     = before[getLogFile(cmd.name, CMD_INSTALL)]
              /\ readLogFile(fs, cmd.name, CMD_INSTALL) = JournalPair

\* C20's case: the second update of an application, its .update journal
\* growing from two lines to four
C20_Witness ==
    /\ Did(CMD_UPDATE) /\ outcome = "ok"
    /\ readLogFile(before, cmd.name, CMD_UPDATE) = JournalPair
    /\ readLogFile(fs, cmd.name, CMD_UPDATE) = JournalPair \o JournalPair
    /\ readLogFile(fs, cmd.name, CMD_INSTALL) = JournalPair

-----------------------------------------------------------------------------
(* SpecWrap: one application installed from archives that hold the same    *)
(* payloads below zero to MaxWrap wrapper directories.                     *)

WrapTar(id) == Append(RES_DIR, WrapTarName(id))
WrapRoot == [file \in {WrapTar(id) : id \in WrapIds} |->
                File(ArchiveData(CHOOSE id \in WrapIds : WrapTar(id) = file), FALSE)]
               @@ EmptyRoot

InitWrap ==
    /\ fs = WrapRoot
    /\ before = WrapRoot
    /\ cmd = NoCmd
    /\ outcome = "none"
    /\ pc = "idle"
    /\ steps = 0

WrapNames == {"a"}
WrapFileSets == {{WrapTar(id)} : id \in WrapIds}

\* install --no-path name file...
InstallNoPath(names, fileSets) ==
    \E name \in names, files \in fileSets :
        Ran([op |-> CMD_INSTALL, name |-> name, files |-> files, noPath |-> TRUE,
             target |-> NoTarget],
            installOrUpdate(fs, name, files, FALSE, FALSE, <<>>, TRUE, NoTarget))

NextWrap ==
    \/ InstallNoPath(WrapNames, WrapFileSets)
    \/ Exit

SpecWrap == InitWrap /\ [][NextWrap]_vars

\* the install of one archive of the family: its payload and its wrappers
WrapInstall ==
    /\ Did(CMD_INSTALL) /\ StateBefore = "NEW"
    /\ \E id \in WrapIds : cmd.files = {WrapTar(id)}
WrapOf == CHOOSE pn \in PayloadNames \X (0..MaxWrap) : cmd.files = {WrapTar(WrapId(pn[1], pn[2]))}

\* the tree after the same install of the same payload without wrappers
Unwrapped ==
    installOrUpdate(before, cmd.name, {WrapTar(WrapId(WrapOf[1], 0))}, FALSE, FALSE, <<>>,
                    TRUE, NoTarget).fs

\* C21: an install of a payload below N wrapper directories, each the only
\* entry of the one above, succeeds, and appDir is then a link into
\* installDir/<the wrappers> that shows the same contents as appDir after
\* the install of the payload without wrappers.
C21_WrapperDepth ==
    WrapInstall
        => /\ outcome = "ok"
           /\ islink(fs, appDir(cmd.name))
           /\ IsPrefix(appInstallDir(cmd.name) \o WrapperChain(WrapOf[2]), fs[appDir(cmd.name)].to)
           /\ isdir(fs, appDir(cmd.name))
           /\ TreeAt(fs, appDir(cmd.name)) = TreeAt(Unwrapped, appDir(cmd.name))

\* C21's case: a payload that is a directory of two files, below two
\* wrappers; appDir shows the two files
C21_Witness ==
    /\ WrapInstall /\ outcome = "ok"
    /\ WrapOf = <<"dir", 2>>
    /\ fs[appDir(cmd.name)] = Link(appInstallDir(cmd.name) \o <<"d", "d", "s">>)
    /\ DOMAIN TreeAt(fs, appDir(cmd.name)) = {<<"f1">>, <<"f2">>}

-----------------------------------------------------------------------------
(* SpecPath: two applications, the name of one the beginning of the name   *)
(* of the other, installed without links in bin; path links are then asked *)
(* for files of either application, for files elsewhere, for a directory   *)
(* and for nothing on disk.                                                *)

PathInstallSets == {{File1, File2}}
PathTargets ==
    [name \in AppNames |->
        {Append(appDir(n), g) : n \in Names, g \in {"f1", "f2"}}
            \cup {File2, Missing, appDir(name)}]

NextPath ==
    \/ InstallNoPath(Names, PathInstallSets)
    \/ Path(Names, PathTargets, LinkNames)
    \/ Foreign(Names)
    \/ Exit

SpecPath == Init /\ [][NextPath]_vars

\* the target of the path command is a file in the tree below the appDir of
\* its application that can be executed
GoodTarget ==
    /\ isfile(before, cmd.file)
    /\ IsPrefix(appDir(cmd.name), cmd.file)
    /\ access_X_OK(before, cmd.file)

\* C22: a path command is constructed only when the application is not
\* UNMANAGED and the target is an existing regular file in the tree below
\* the application's own appDir and executable; a target outside that tree,
\* a file elsewhere or a file of another application, is rejected and no
\* link is made in the bin directory.
C22_PathTargetChecked ==
    Did(CMD_PATH)
        => /\ outcome \notin ValidationErrors
                  => StateBefore # "UNMANAGED" /\ GoodTarget
           /\ ~IsPrefix(appDir(cmd.name), cmd.file)
                  => /\ outcome \in ValidationErrors
                     /\ fs = before

\* C22 with "in the tree below appDir" read as the code tests it, as a
\* prefix of the path's string
C22_PathTargetCheckedByString ==
    Did(CMD_PATH)
        => /\ outcome \notin ValidationErrors
                  => /\ StateBefore # "UNMANAGED"
                     /\ isfile(before, cmd.file)
                     /\ isAppFile(cmd.name, cmd.file)
                     /\ access_X_OK(before, cmd.file)
           /\ ~isAppFile(cmd.name, cmd.file)
                  => /\ outcome \in ValidationErrors
                     /\ fs = before

-----------------------------------------------------------------------------
(* SpecDetect: installs of plain files, executable and not, with the       *)
(* executable for the bin directory chosen by the program.                 *)

PlainFileSets == {{File1}, {File2}, {File1, File2}}

NextDetect ==
    \/ Install(Names, PlainFileSets)
    \/ Remove(Names, DefaultScope)
    \/ Exit

SpecDetect == Init /\ [][NextDetect]_vars

\* the entries of the bin directory
BinEntries(f) == {q \in DOMAIN f : q # <<>> /\ Parent(q) = BIN_DIR}
\* the entries of the bin directory that the command made or changed
NewBinEntries == {q \in BinEntries(fs) : q \notin DOMAIN before \/ fs[q] # before[q]}

\* C23: an install of plain files that chooses the executable itself links
\* an executable file and nothing else: with an executable file among the
\* inputs, <bin>/<basename> is afterwards a link to the place below appDir
\* that file was installed at; with none, no link of the bin directory is
\* new or changed.
C23_LinksExecutableOnly ==
    Did(CMD_INSTALL) /\ ~cmd.noPath /\ outcome = "ok"
                     /\ (\A file \in cmd.files : ~isArchiveFile(file) /\ isfile(before, file))
        => /\ (\E file \in cmd.files : access_X_OK(before, file))
                  => \E file \in cmd.files :
                         /\ access_X_OK(before, file)
                         /\ islink(fs, Append(BIN_DIR, Base(file)))
                         /\ fs[Append(BIN_DIR, Base(file))]
                                = Link(Append(appDir(cmd.name), Base(file)))
                         /\ isfile(fs, Append(BIN_DIR, Base(file)))
                         /\ access_X_OK(fs, Append(BIN_DIR, Base(file)))
                         /\ NewBinEntries \subseteq {Append(BIN_DIR, Base(file))}
           /\ ~(\E file \in cmd.files : access_X_OK(before, file))
                  => NewBinEntries = {} /\ BinEntries(fs) = BinEntries(before)

\* C23's case: a file that cannot be executed and one that can are
\* installed together, and the link in bin is the one of the second
C23_Witness ==
    /\ Did(CMD_INSTALL) /\ ~cmd.noPath /\ outcome = "ok"
    /\ cmd.files = {File1, File2}
    /\ NewBinEntries = {Append(BIN_DIR, "f2")}
    /\ fs[Append(BIN_DIR, "f2")] = Link(Append(appDir(cmd.name), "f2"))

-----------------------------------------------------------------------------
(* SpecCut: installs that raise after one of the steps of                  *)
(* InstallTask.execute, installs that run to their end, and removes.       *)

\* the steps of the with body of InstallTask.execute for an install: make
\* installDir, copy the files, make the link, restore the kept files, write
\* the first and the second line of the journal
CutSteps == 0..6

\* the with body of InstallTask.execute raising after its first k steps
installBodyCut(f, name, files, logFile, k) ==
    Then(IF k >= 1 THEN makedirs(f, appInstallDir(name)) ELSE Raise(f), LAMBDA g1 :
    Then(IF k >= 2 THEN copyFiles(g1, name, files) ELSE Raise(g1), LAMBDA g2 :
    Then(IF k >= 3 THEN createSymlink(g2, name) ELSE Raise(g2), LAMBDA g3 :
    Then(IF k >= 4 THEN copyFileOrFolder(g3, TMP_DIR, appInstallDir(name))
         ELSE Raise(g3), LAMBDA g4 :
    Then(IF k >= 5 THEN appendLine(g4, logFile, appInstallDir(name)) ELSE Raise(g4), LAMBDA g5 :
    Then(IF k >= 6 THEN appendLine(g5, logFile, appDir(name)) ELSE Raise(g5), LAMBDA g6 :
    Raise(g6)))))))

\* InstallTask.execute of an install raising after k steps of its with body:
\* the journal is closed and the temporary directory removed on the way out
InstallExecuteCut(f, name, files, k) ==
    Then(makedirs(f, INSTALL_DIR), LAMBDA g1 :
    Then(openAppend(g1, getLogFile(name, CMD_INSTALL)), LAMBDA g2 :
    cleanupTmp(Then(mkdir(g2, TMP_DIR), LAMBDA h :
                   installBodyCut(h, name, files, getLogFile(name, CMD_INSTALL), k)))))

\* install --no-path with the execution raising after k steps
installCut(f, name, files, k) ==
    IF validNonExisting(f, files, FALSE) # {} THEN Result("files do not exist", f)
    ELSE With(InstallTaskInit(f, name, FALSE, <<>>), LAMBDA init :
        IF init # "ok" THEN Result(init, f)
        ELSE Finished(InstallExecuteCut(f, name, SortPaths(files), k)))

InstallInterrupted(names, fileSets, cuts) ==
    \E name \in names, files \in fileSets, k \in cuts :
        Ran([op |-> CMD_INSTALL, name |-> name, files |-> files, noPath |-> TRUE,
             target |-> NoTarget, cut |-> k],
            installCut(fs, name, files, k))

CutNames == {"a"}
CutFileSets == {{File1}, {File1, File2}}

NextCut ==
    \/ InstallInterrupted(CutNames, CutFileSets, CutSteps)
    \/ InstallNoPath(CutNames, CutFileSets)
    \/ Remove(CutNames, DefaultScope)
    \/ Exit

SpecCut == Init /\ [][NextCut]_vars

\* an install of a NEW application has raised in the middle of its execution
Interrupted ==
    /\ Did(CMD_INSTALL) /\ "cut" \in DOMAIN cmd
    /\ StateBefore = "NEW" /\ outcome = "exception"

\* what the same install command does on the tree t
SameInstall(t) ==
    installOrUpdate(t, cmd.name, cmd.files, FALSE, FALSE, <<>>, TRUE, NoTarget)

\* C24: when an install of a NEW application has raised after any of its
\* steps, the same install command run again is accepted and leaves what
\* the install leaves that is not interrupted: the application INSTALLED,
\* the appDir link in place, the journal written.
C24_RerunConverges ==
    Interrupted
        => /\ SameInstall(fs).out = "ok"
           /\ ApplicationState(SameInstall(fs).fs, cmd.name) = "INSTALLED"
           /\ SameInstall(fs).fs = SameInstall(before).fs

\* C24 for the installs that raise before installDir is made
C24_RerunConvergesEarly ==
    Interrupted /\ cmd.cut = 0
        => /\ SameInstall(fs).out = "ok"
           /\ ApplicationState(SameInstall(fs).fs, cmd.name) = "INSTALLED"
           /\ SameInstall(fs).fs = SameInstall(before).fs

\* after every later step the application is left in a state in which the
\* same install is refused
C24_RerunRefused ==
    Interrupted /\ cmd.cut >= 1
        => /\ SameInstall(fs).out \in {"is not managed", "is already installed"}
           /\ cmd.cut <= 2 <=> ApplicationState(fs, cmd.name) = "UNMANAGED"

-----------------------------------------------------------------------------
(* Removes narrowed to one scope.                                          *)

\* a remove with --path-only or --desktop-only has run
ScopedRemove == Did(CMD_REMOVE) /\ outcome = "ok" /\ (cmd.desktopOnly \/ cmd.pathOnly)

\* the paths the journals of the scope record
ScopeJournaled ==
    UNION {Range(readLogFile(before, cmd.name, c)) :
              c \in removeCommands(cmd.desktopOnly, cmd.pathOnly)}

\* the journal files of the scope
ScopeJournals == {getLogFile(cmd.name, c) : c \in removeCommands(cmd.desktopOnly, cmd.pathOnly)}

\* C25: a remove with --path-only (--desktop-only) deletes nothing but the
\* paths the path (desktop) journal records and that journal; it creates and
\* changes nothing, and the public directory, the install directory, the
\* state of the application and the journals of the other commands are as
\* they were.  The journal of the former menu command belongs to the
\* desktop scope.
C25_ScopedRemoveFrame ==
    ScopedRemove
        => /\ \A p \in DOMAIN fs : p \in DOMAIN before /\ fs[p] = before[p]
           /\ \A p \in DOMAIN before \ DOMAIN fs :
                  \/ p \in ScopeJournals
                  \/ \E q \in ScopeJournaled : IsPrefix(q, p)
           /\ \A p \in DOMAIN before :
                  IsPrefix(appDir(cmd.name), p) \/ IsPrefix(appInstallDir(cmd.name), p)
                      => p \in DOMAIN fs
           /\ StateAfter = StateBefore
           /\ \A c \in Commands :
                  getLogFile(cmd.name, c) \notin ScopeJournals
                      /\ getLogFile(cmd.name, c) \in DOMAIN before
                      => getLogFile(cmd.name, c) \in DOMAIN fs

C25_Witness ==
    /\ ScopedRemove /\ cmd.pathOnly
    /\ StateBefore = "INSTALLED"
    /\ getLogFile(cmd.name, CMD_PATH) \in DOMAIN before \ DOMAIN fs
    /\ getLogFile(cmd.name, CMD_INSTALL) \in DOMAIN fs
    /\ \E q \in ScopeJournaled : lexists(before, q) /\ ~lexists(fs, q)

\* the same case for --desktop-only
C25_DesktopCase ==
    /\ ScopedRemove /\ cmd.desktopOnly
    /\ getLogFile(cmd.name, CMD_DESKTOP) \in DOMAIN before \ DOMAIN fs
    /\ \E q \in ScopeJournaled : lexists(before, q) /\ ~lexists(fs, q)

-----------------------------------------------------------------------------
(* Broken links among the journaled paths.                                 *)

\* the path is a symbolic link whose target does not exist
Dangling(f, p) == islink(f, p) /\ ~exists(f, p)

\* the paths a remove that has run was to look at
RemoveScheduled ==
    (IF ~cmd.desktopOnly /\ ~cmd.pathOnly
     THEN {appDir(cmd.name), appInstallDir(cmd.name)} ELSE {})
    \cup ScopeJournaled

\* C26: a journaled path that is a symbolic link whose target is gone is
\* removed with the rest: after the remove it neither exists nor is a link.
C26_BrokenLinkRemoved ==
    Did(CMD_REMOVE) /\ outcome = "ok"
        => \A q \in RemoveScheduled :
               Dangling(before, q) => ~exists(fs, q) /\ ~islink(fs, q)

C26_Witness ==
    /\ Did(CMD_REMOVE) /\ outcome = "ok"
    /\ \E q \in ScopeJournaled :
           Dangling(before, q) /\ ~exists(fs, q) /\ ~islink(fs, q)

-----------------------------------------------------------------------------
(* Chains of aliases.                                                      *)

\* os.readlink: where the link at p points
readlink(f, p) == f[LReal(f, p)].to

\* c is an alias of b and b is an alias itself
AliasOfAlias(c, b) ==
    /\ c # b
    /\ ApplicationState(fs, c) = "ALIAS" /\ ApplicationState(fs, b) = "ALIAS"
    /\ islink(fs, appInstallDir(c))
    /\ readlink(fs, appInstallDir(c)) = appDir(b)

\* C27: when c is an alias of b and b an alias of a, the aliasTarget of c is
\* the public directory of b, the place the link at the install directory
\* of c points to, not the directory the chain ends in.
C27_AliasTargetOneLevel ==
    \A c \in AliasNames, b \in AliasNames :
        AliasOfAlias(c, b) => aliasTarget(fs, c) = appDir(b)

\* what the program reports for such a c: the directory at the end of the
\* chain, the install directory of an installed application
C27_AliasTargetChainEnd ==
    \A c \in AliasNames, b \in AliasNames :
        AliasOfAlias(c, b)
            => \E a \in AliasNames \ {b, c} :
                   /\ ApplicationState(fs, a) = "INSTALLED"
                   /\ aliasTarget(fs, c) = appInstallDir(a)

-----------------------------------------------------------------------------
(* The order of the link and the restore in InstallTask.execute.           *)

\* an update that was given files to keep has run
UpdateWithKeep == Did(CMD_UPDATE) /\ outcome = "ok" /\ cmd.keep # <<>>

\* C28: the kept files are put back into installDir before the appDir link
\* is made, so after an update with kept files the link points to the place
\* skipContainerDirs finds in installDir as it is with the kept files in it.
C28_LinkOverRestored ==
    UpdateWithKeep
        => /\ islink(fs, appDir(cmd.name))
           /\ readlink(fs, appDir(cmd.name)) = skipContainerDirs(fs, appInstallDir(cmd.name))

\* the link is made over installDir as the copy of the input has left it:
\* where it points there are the files of the input alone
C28_LinkBeforeRestore ==
    UpdateWithKeep /\ cmd.delete
        => /\ islink(fs, appDir(cmd.name))
           /\ readlink(fs, appDir(cmd.name))
                  = skipContainerDirs(copyFiles(rmtree(before, appInstallDir(cmd.name)).fs,
                                                cmd.name, SortPaths(cmd.files)).fs,
                                      appInstallDir(cmd.name))

-----------------------------------------------------------------------------
(* SpecRemove: RemoveTask.execute one deletion at a time.  While a remove  *)
(* runs pc is "removing" and cmd carries what is left of self.files and    *)
(* self.logFiles, and all that was scheduled.                              *)

\* one pass of the loop over self.files
removeOne(f, file) ==
    IF islink(f, file) THEN unlink(f, file)
    ELSE IF isdir(f, file) THEN rmtree(f, file)
    ELSE unlink(f, file)

\* removeNext with the journals deleted first
removeNext_logsFirst(files, logFiles) ==
    IF logFiles # <<>> THEN "log" ELSE IF files # <<>> THEN "file" ELSE "end"

\* where RemoveTask.execute stands: in the loop over the files, in the loop
\* over the journals, or at its end
removeNext(files, logFiles) ==
    IF files # <<>> THEN "file" ELSE IF logFiles # <<>> THEN "log" ELSE "end"

\* remove(args) up to the call of execute
RemoveStart(names, scopes) ==
    \E name \in names, scope \in scopes, force \in BOOLEAN :
        LET c == [op |-> CMD_REMOVE, name |-> name, desktopOnly |-> scope[1],
                  pathOnly |-> scope[2], force |-> force,
                  scheduled |-> removeFiles(fs, name, scope[1], scope[2]),
                  files |-> SortPaths(removeFiles(fs, name, scope[1], scope[2])),
                  logFiles |-> SortPaths(removeLogFiles(fs, name, scope[1], scope[2]))]
        IN  /\ pc = "idle"
            /\ steps < MaxSteps
            /\ before' = fs
            /\ cmd' = c
            /\ steps' = steps + 1
            /\ fs' = fs
            /\ IF RemoveTaskInit(fs, name, force) # "ok"
               THEN pc' = "done" /\ outcome' = RemoveTaskInit(fs, name, force)
               ELSE pc' = "removing" /\ outcome' = "none"

\* the execution goes on with the result r of one deletion
RemoveStepped(r, c) ==
    /\ fs' = r.fs
    /\ IF r.ok THEN cmd' = c /\ pc' = "removing" /\ outcome' = "none"
       ELSE cmd' = cmd /\ pc' = "done" /\ outcome' = "exception"
    /\ UNCHANGED <<before, steps>>

RemoveFile ==
    /\ pc = "removing"
    /\ removeNext(cmd.files, cmd.logFiles) = "file"
    /\ RemoveStepped(removeOne(fs, Head(cmd.files)), [cmd EXCEPT !.files = Tail(@)])

RemoveLog ==
    /\ pc = "removing"
    /\ removeNext(cmd.files, cmd.logFiles) = "log"
    /\ RemoveStepped(unlink(fs, Head(cmd.logFiles)), [cmd EXCEPT !.logFiles = Tail(@)])

RemoveEnd ==
    /\ pc = "removing"
    /\ removeNext(cmd.files, cmd.logFiles) = "end"
    /\ pc' = "done"
    /\ outcome' = "ok"
    /\ UNCHANGED <<fs, before, cmd, steps>>

\* the deletion that is next raises an OSError and leaves the tree as it is
RemoveFails ==
    /\ pc = "removing"
    /\ removeNext(cmd.files, cmd.logFiles) # "end"
    /\ pc' = "done"
    /\ outcome' = "exception"
    /\ UNCHANGED <<fs, before, cmd, steps>>

RemoveNames == {"a", "ab"}
RemoveFileSets == {{File2}}

NextRemove ==
    \/ Install(RemoveNames, RemoveFileSets)
    \/ Alias(RemoveNames)
    \/ Desktop(RemoveNames, DesktopFileSets)
    \/ RemoveStart(RemoveNames, Scopes)
    \/ RemoveFile
    \/ RemoveLog
    \/ RemoveEnd
    \/ RemoveFails
    \/ Exit

SpecRemove == Init /\ [][NextRemove]_vars

\* a remove is being executed or has been executed, to its end or not
InRemove == pc \in {"removing", "done"} /\ cmd.op = CMD_REMOVE

\* a journal of the application is gone that was there when the remove began
JournalDeleted ==
    \E c \in Commands : getLogFile(cmd.name, c) \in DOMAIN before \ DOMAIN fs

\* C29: RemoveTask.execute deletes the files and directories before the
\* journals: in every state of a remove, one cut short by an error included,
\* if a journal of the application is deleted already then every scheduled
\* path is gone.
C29_FilesBeforeJournals ==
    InRemove /\ JournalDeleted => \A q \in cmd.scheduled : ~lexists(fs, q)

\* in the middle of the loop over the journals
C29_Witness ==
    /\ InRemove /\ pc = "removing"
    /\ JournalDeleted /\ cmd.logFiles # <<>>
    /\ Cardinality(cmd.scheduled) >= 2
    /\ \A q \in cmd.scheduled : lexists(before, q) /\ ~lexists(fs, q)

\* a remove cut short in the loop over the files
C29_CutShort ==
    /\ InRemove /\ outcome = "exception"
    /\ ~JournalDeleted
    /\ \E q \in cmd.scheduled : ~lexists(fs, q)
    /\ \E q \in cmd.scheduled : lexists(fs, q)

\* the steps together do what RemoveTask.execute does
C29_StepsAreExecute ==
    InRemove /\ outcome = "ok"
        => fs = remove(before, cmd.name, cmd.desktopOnly, cmd.pathOnly, cmd.force).fs

-----------------------------------------------------------------------------
(* SpecRank: installs of two executable files from directories whose       *)
(* names differ in length, the executable for bin chosen by the program.   *)

\* the directories the candidates lie in
RankDirs == {RES_DIR} \cup {Append(RES_DIR, LongName(n)) : n \in LongLens}
\* in each of them an executable file named ab and one named f2
RankFiles == {Append(d, b) : d \in RankDirs, b \in {"ab", "f2"}}

RankRoot ==
    [file \in RankFiles |-> File(Data2, TRUE)]
    @@ [d \in RankDirs |-> Dir]
    @@ EmptyRoot

InitRank ==
    /\ fs = RankRoot
    /\ before = RankRoot
    /\ cmd = NoCmd
    /\ outcome = "none"
    /\ pc = "idle"
    /\ steps = 0

RankNames == {"a"}
RankFileSets == {{f, g} : f \in RankFiles, g \in RankFiles}

NextRank ==
    \/ Install(RankNames, RankFileSets)
    \/ Remove(RankNames, DefaultScope)
    \/ Exit

SpecRank == InitRank /\ [][NextRank]_vars

\* an install has chosen an executable for bin by itself
AutoDetected ==
    Did(CMD_INSTALL) /\ outcome = "ok" /\ ~cmd.noPath /\ cmd.target # NoTarget

\* f is ranked before g or with it: the file whose basename starts with the
\* name of the application comes first, whatever the lengths; of two that
\* are alike in this the shorter path comes first
LexBefore(f, g, name) ==
    \/ startswithName(Base(f), name) /\ ~startswithName(Base(g), name)
    \/ /\ startswithName(Base(f), name) = startswithName(Base(g), name)
       /\ Len(AbsStr(f)) <= Len(AbsStr(g))

\* the files of the install that are first in this order
LexBest == {f \in cmd.files : \A g \in cmd.files : LexBefore(f, g, cmd.name)}

\* C30: the executable for bin is a candidate that is first in the order
\* "basename starts with the name of the application, then shorter path".
C30_LexicographicRank ==
    AutoDetected => cmd.target \in {Append(appDir(cmd.name), Base(f)) : f \in LexBest}

\* the same where no path is 98 characters longer than another, or more
C30_LexicographicRankNear ==
    AutoDetected /\ (\A f \in cmd.files, g \in cmd.files :
                        Len(AbsStr(f)) - Len(AbsStr(g)) < 98)
        => cmd.target \in {Append(appDir(cmd.name), Base(f)) : f \in LexBest}

\* what the program does: the least sum of 1 or 100 and the length
C30_AdditiveRank ==
    AutoDetected
        => \E f \in cmd.files :
               /\ cmd.target = Append(appDir(cmd.name), Base(f))
               /\ \A g \in cmd.files : fileKey(f, cmd.name) <= fileKey(g, cmd.name)

-----------------------------------------------------------------------------
(* SpecArchive: installs of one archive with the executable for bin chosen *)
(* among the files of the archive.                                         *)

ArchiveNames == {"a"}
ArchiveFileSets ==
    {{WrapTar(WrapId(p, n))} : p \in {"mix", "two", "dir"}, n \in {0, 1}}

NextArchive ==
    \/ Install(ArchiveNames, ArchiveFileSets)
    \/ Remove(ArchiveNames, DefaultScope)
    \/ Exit

SpecArchive == InitWrap /\ [][NextArchive]_vars

\* the installed files with the basename of the chosen target, as paths
\* relative to the directory appDir leads to
ChosenInPayload ==
    {RelTo(Real(fs, appDir(cmd.name)), q) :
        q \in {q \in getAllSubFiles(fs, appDir(cmd.name)) : Base(q) = Base(cmd.target)}}

\* the choice fell on an executable file that lies in a sub-directory of the
\* payload and nowhere else
SubDirChoice ==
    /\ AutoDetected /\ StateBefore = "NEW"
    /\ ChosenInPayload # {}
    /\ \A r \in ChosenInPayload :
           Len(r) >= 2 /\ access_X_OK(fs, appDir(cmd.name) \o r)

C31_SubDirNoLink ==
    SubDirChoice
        => /\ cmd.target = Append(appDir(cmd.name), Base(cmd.target))
           /\ ~exists(fs, cmd.target)
           /\ ~islink(fs, Append(BIN_DIR, Base(cmd.target)))

\* for a chosen executable file at the top of the payload the link is made
C31_TopLevelLinked ==
    AutoDetected /\ StateBefore = "NEW"
        /\ <<Base(cmd.target)>> \in ChosenInPayload
        /\ access_X_OK(fs, cmd.target)
        => /\ islink(fs, Append(BIN_DIR, Base(cmd.target)))
           /\ readlink(fs, Append(BIN_DIR, Base(cmd.target))) = cmd.target

C31_TopLevelCase ==
    /\ AutoDetected /\ StateBefore = "NEW"
    /\ <<Base(cmd.target)>> \in ChosenInPayload
    /\ islink(fs, Append(BIN_DIR, Base(cmd.target)))

-----------------------------------------------------------------------------
(* SpecLink: path commands with and without --link-name, after installs    *)
(* that choose the executable themselves or not.                           *)

LinkTargets == [name \in AppNames |-> {Append(appDir(name), g) : g \in {"f1", "f2"}}]
LinkNameSet == {"", "s"}

NextLink ==
    \/ Install(Names, PathInstallSets)
    \/ Path(Names, LinkTargets, LinkNameSet)
    \/ Remove(Names, DefaultScope)
    \/ Exit

SpecLink == Init /\ [][NextLink]_vars

\* the place of the link of the path command that has run
PathDst == Append(BIN_DIR, IF cmd.linkName = "" THEN Base(cmd.file) ELSE cmd.linkName)

\* a path command has got through the constructor of its task
PathExecuted == Did(CMD_PATH) /\ outcome \notin ValidationErrors

\* C32: when the path task executes with a target that exists and is
\* executable, <bin>/<linkName>, the basename of the target when no name is
\* given, is afterwards a link to the target, also where a link was there
\* before, and the place of the link is the new last line of the path
\* journal of the application.
C32_LinkMadeAndJournaled ==
    PathExecuted
        => /\ outcome = "ok"
           /\ islink(fs, PathDst)
           /\ readlink(fs, PathDst) = cmd.file
           /\ readLogFile(fs, cmd.name, CMD_PATH)
                  = Append(readLogFile(before, cmd.name, CMD_PATH), PathDst)

\* a link to another target was at the place and is replaced
C32_Witness ==
    /\ PathExecuted
    /\ islink(before, PathDst) /\ readlink(before, PathDst) # cmd.file
    /\ islink(fs, PathDst) /\ readlink(fs, PathDst) = cmd.file

\* the case of a link name given on the command line
C32_NamedCase ==
    /\ PathExecuted /\ cmd.linkName = "s"
    /\ islink(fs, Append(BIN_DIR, "s"))

-----------------------------------------------------------------------------
(* The path task of an install executed with a target that is missing or   *)
(* cannot be executed.                                                     *)

\* SpecSkip: installs of an archive by a, the executable chosen by the
\* program, with the link of the application ab in bin or not
SkipFileSets == {{WrapTar(WrapId(p, 0))} : p \in {"mix", "two"}}
SkipTargets == [name \in AppNames |-> {Append(appDir(name), "f2")}]

NextSkip ==
    \/ Install({"a"}, SkipFileSets)
    \/ InstallNoPath({"ab"}, {{File2}})
    \/ Path({"ab"}, SkipTargets, LinkNames)
    \/ Remove({"a"}, DefaultScope)
    \/ Exit

SpecSkip == InitWrap /\ [][NextSkip]_vars

\* an install has executed its InstallTask and then its PathTask
InstallThenPath ==
    /\ Did(CMD_INSTALL) /\ ~cmd.noPath
    /\ cmd.target \notin {NoTarget, DetectRaised}
    /\ readLogFile(fs, cmd.name, CMD_INSTALL) # readLogFile(before, cmd.name, CMD_INSTALL)

\* the target of that PathTask is not there or is not executable
BadPathTarget == ~exists(fs, cmd.target) \/ ~access_X_OK(fs, cmd.target)

\* the place of the link of that PathTask
InstallDst == Append(BIN_DIR, Base(cmd.target))

\* C33: when the path task executes and its target does not exist or is not
\* executable, it ends without raising, it makes and replaces no link (what
\* was at <bin>/<linkName> is as it was) and the path journal gets no line.
C33_BadTargetSkipped ==
    InstallThenPath /\ BadPathTarget
        => /\ outcome = "ok"
           /\ lexists(fs, InstallDst) = lexists(before, InstallDst)
           /\ InstallDst \in DOMAIN before => fs[InstallDst] = before[InstallDst]
           /\ readLogFile(fs, cmd.name, CMD_PATH) = readLogFile(before, cmd.name, CMD_PATH)

\* a missing target, with the link of another application at the place
C33_Witness ==
    /\ InstallThenPath /\ ~exists(fs, cmd.target)
    /\ islink(before, InstallDst) /\ islink(fs, InstallDst)
    /\ readlink(fs, InstallDst) # cmd.target

\* a target that is there and is not executable
C33_NotExecutableCase ==
    /\ InstallThenPath /\ exists(fs, cmd.target) /\ ~access_X_OK(fs, cmd.target)
    /\ ~lexists(fs, InstallDst)

-----------------------------------------------------------------------------
(* Loops of symbolic links.                                                *)

RECURSIVE LinkChain(_, _, _)
\* where the links lead that start at p, one link after the other: to a
\* place that is no link ("real"), to nothing ("dangling"), or on and on
\* ("cycle"): n links are followed at most, and there are fewer in the tree
LinkChain(f, p, n) ==
    IF ~lexists(f, p) THEN "dangling"
    ELSE IF ~islink(f, p) THEN "real"
    ELSE IF n = 0 THEN "cycle"
    ELSE LinkChain(f, readlink(f, p), n - 1)

\* more than the links the applications of the model can have
ChainFuel == 2 * Cardinality(AppNames) + 1

\* C34: no sequence of commands makes a loop of links: from the install
\* directory of every application the links lead to a place that is no link
\* (or, after a remove, to nothing), never back to where they began.
C34_NoAliasCycle ==
    \A name \in AliasNames : LinkChain(fs, appInstallDir(name), ChainFuel) # "cycle"

\* the alias command that closes a loop is accepted, raises at its second
\* link and leaves both applications NEW
C34_CycleLeft ==
    (/\ pc = "done"
     /\ \E name \in AliasNames : LinkChain(fs, appInstallDir(name), ChainFuel) = "cycle"
     /\ \A name \in AliasNames : LinkChain(before, appInstallDir(name), ChainFuel) # "cycle")
        => /\ cmd.op = CMD_ALIAS /\ outcome = "exception"
           /\ ApplicationState(before, cmd.name) = "ALIAS"
           /\ ApplicationState(before, cmd.target) = "ALIAS"
           /\ ApplicationState(fs, cmd.name) = "NEW"
           /\ ApplicationState(fs, cmd.target) = "NEW"

-----------------------------------------------------------------------------
(* The layout on disk that belongs to each state.                          *)

\* the install directory of the application is a directory of its own
RealInstallDir(f, name) ==
    ~islink(f, appInstallDir(name)) /\ isdir(f, appInstallDir(name))

\* C35: in every state the commands of the program lead to, an application
\* that resolves as ALIAS has a link at installDir; one that resolves as
\* INSTALLED has a directory of its own at installDir and at appDir a link
\* that points into it; and no application has an alias journal together
\* with an install directory of its own.
C35_LayoutByState ==
    \A name \in Names :
        /\ ApplicationState(fs, name) = "ALIAS" => islink(fs, appInstallDir(name))
        /\ ApplicationState(fs, name) = "INSTALLED"
               => /\ RealInstallDir(fs, name)
                  /\ islink(fs, appDir(name))
                  /\ IsPrefix(appInstallDir(name), readlink(fs, appDir(name)))
        /\ ~(lexists(fs, getLogFile(name, CMD_ALIAS)) /\ RealInstallDir(fs, name))

\* one application installed and another its alias
C35_Witness ==
    \E name \in Names, other \in Names :
        /\ ApplicationState(fs, name) = "ALIAS"
        /\ islink(fs, appInstallDir(name))
        /\ ApplicationState(fs, other) = "INSTALLED"
        /\ RealInstallDir(fs, other)
        /\ readlink(fs, appInstallDir(name)) = appDir(other)

-----------------------------------------------------------------------------
(* What is left of an application that resolves as NEW.                    *)

\* the journals of the application that are on disk
JournalsOf(f, name) == {c \in Commands : lexists(f, getLogFile(name, c))}

\* the journaled paths of the application that are on disk
JournaledLeft(f, name) ==
    {q \in UNION {Range(readLogFile(f, name, c)) : c \in Commands} : lexists(f, q)}

\* C36: no orphans: an application that resolves as NEW has no journal on
\* disk, no link at appDir or installDir and no journaled path left, so
\* nothing the program made is out of the reach of its remove.
C36_NoOrphans ==
    \A name \in Names :
        ApplicationState(fs, name) = "NEW"
            => /\ JournalsOf(fs, name) = {}
               /\ JournaledLeft(fs, name) = {}
               /\ ~lexists(fs, appDir(name)) /\ ~lexists(fs, appInstallDir(name))

\* the same for the states that install, update, remove and alias lead to
\* from applications that are all installed or absent: no desktop,
\* autocomplete or path command, no alias whose target is removed
C36_NoOrphansInstallOnly ==
    (\A name \in Names : JournalsOf(fs, name) \subseteq {CMD_INSTALL, CMD_UPDATE})
        => \A name \in Names :
               ApplicationState(fs, name) = "NEW"
                   => /\ JournalsOf(fs, name) = {}
                      /\ ~lexists(fs, appDir(name)) /\ ~lexists(fs, appInstallDir(name))

\* a remove is refused for a NEW application with something left on disk
C36_OrphanStuck ==
    /\ Did(CMD_REMOVE) /\ outcome = "does not exist"
    /\ JournaledLeft(fs, cmd.name) # {}

-----------------------------------------------------------------------------
(* The states of the other applications.                                   *)

\* install, update, alias or remove has run
LifecycleRan == pc = "done" /\ cmd.op \in {CMD_INSTALL, CMD_UPDATE, CMD_ALIAS, CMD_REMOVE}

\* C37: install, update, alias or remove of one application leaves every
\* other application in the state it resolved to before; removing the
\* target of an alias leaves the alias an ALIAS.
C37_OthersKeepState ==
    LifecycleRan
        => \A b \in Names \ {cmd.name} :
               ApplicationState(fs, b) = ApplicationState(before, b)

\* the other applications whose state does change are aliases: their
\* install directory is a link
C37_OnlyAliasesChange ==
    LifecycleRan
        => \A b \in Names \ {cmd.name} :
               ApplicationState(fs, b) # ApplicationState(before, b)
                   => islink(before, appInstallDir(b))

\* an alias turns NEW when its target is removed
C37_AliasTurnsNew ==
    /\ Did(CMD_REMOVE) /\ outcome = "ok"
    /\ \E b \in Names \ {cmd.name} :
           ApplicationState(before, b) = "ALIAS" /\ ApplicationState(fs, b) = "NEW"

-----------------------------------------------------------------------------
(* The links in bin that belong to another application.                    *)

\* the links in bin that point into the appDir of an application other
\* than the one of the command
OthersBinLinks ==
    {q \in BinEntries(before) :
        /\ islink(before, q)
        /\ \E b \in Names \ {cmd.name} : IsPrefix(appDir(b), readlink(before, q))}

\* C38: the remove of an application deletes no link in bin that points
\* into another application: where both made a link of the same name and
\* the other's replaced it, the link stays, aimed at the other's target.
C38_OthersLinksStay ==
    Did(CMD_REMOVE) /\ outcome = "ok"
        => \A q \in OthersBinLinks : q \in DOMAIN fs /\ fs[q] = before[q]

\* the links of another application that a remove deletes are those the
\* path journal of the removed application names
C38_DeletedAreJournaled ==
    Did(CMD_REMOVE) /\ outcome = "ok"
        => \A q \in OthersBinLinks :
               q \notin DOMAIN fs => q \in Range(readLogFile(before, cmd.name, CMD_PATH))

\* the other application is left with a path journal that names no link
C38_LinkLost ==
    /\ Did(CMD_REMOVE) /\ outcome = "ok"
    /\ \E q \in OthersBinLinks, b \in Names \ {cmd.name} :
           /\ q \notin DOMAIN fs
           /\ q \in Range(readLogFile(fs, b, CMD_PATH))
           /\ ApplicationState(fs, b) = "INSTALLED"

====
